---------------------------- MODULE Spec2Model ----------------------------
(***************************************************************************)
(* CryptoBot: the indicator catalog (analysis/technical.py, peer.py,       *)
(* fundamental.py, quantitative.py) and the report assembly of main.py.    *)
(*                                                                         *)
(* Numbers.  The program computes with IEEE doubles through pandas/numpy.  *)
(* The model computes with exact reals: a finite value is a + b*u with a,b *)
(* rationals and u a positive symbolic unit (a square root, or the sum of  *)
(* a discounted growth series), and the three non-finite outcomes of a     *)
(* float computation are kept as values of their own: NaN, +inf, -inf.     *)
(* Rounding and the sign of zero are not modelled.  An exception that      *)
(* leaves a function is the value Raise(kind).                             *)
(***************************************************************************)
EXTENDS Integers, Sequences, FiniteSets, TLC

(***************************************************************************)
(* Rationals <<n, d>> with d > 0 and gcd(n, d) = 1.                        *)
(***************************************************************************)
Abs(i) == IF i < 0 THEN -i ELSE i

RECURSIVE GCD(_, _)
GCD(x, y) == IF y = 0 THEN x ELSE GCD(y, x % y)

\* n/d in lowest terms, g the gcd of the two
RNormBy(n, d, g) ==
    IF d < 0 THEN <<(-n) \div g, (-d) \div g>> ELSE <<n \div g, d \div g>>
RNorm(n, d) == RNormBy(n, d, GCD(Abs(n), Abs(d)))

RZero == <<0, 1>>
ROne == <<1, 1>>
RNeg(x) == <<-x[1], x[2]>>
RSign(x) == IF x[1] > 0 THEN 1 ELSE IF x[1] < 0 THEN -1 ELSE 0

\* the sum over the least common denominator, g the gcd of the denominators
RAddBy(x, y, g) ==
    RNorm(x[1] * (y[2] \div g) + y[1] * (x[2] \div g), (x[2] \div g) * y[2])
RAdd(x, y) == RAddBy(x, y, GCD(x[2], y[2]))

RSub(x, y) == RAdd(x, RNeg(y))

\* cross-cancelling product: the factors stay small when the result is
NonZero(g) == IF g = 0 THEN 1 ELSE g
RMulBy(x, y, h1, h2) ==
    RNorm((x[1] \div h1) * (y[1] \div h2), (x[2] \div h2) * (y[2] \div h1))
RMul(x, y) ==
    RMulBy(x, y, NonZero(GCD(Abs(x[1]), y[2])), NonZero(GCD(Abs(y[1]), x[2])))

RInv(x) == RNorm(x[2], x[1])
RDiv(x, y) == RMul(x, RInv(y))
RLt(x, y) == RSign(RSub(x, y)) < 0


(***************************************************************************)
(* Float values.  k = "num": the finite real a + b*u; u is One (then b=0), *)
(* a square root [t |-> "sqrt", x |-> radicand], or the discounted growth  *)
(* sum [t |-> "ann", ...] and its reciprocal [t |-> "inv", ...].           *)
(* k = "nan" | "inf" | "ninf": the IEEE specials.  Any other k is the name *)
(* of the exception raised.                                                *)
(***************************************************************************)
One == [t |-> "one", x |-> RZero, y |-> RZero, z |-> 0]
SqrtUnit(r) == [t |-> "sqrt", x |-> r, y |-> RZero, z |-> 0]

Special(kind) == [k |-> kind, a |-> RZero, b |-> RZero, u |-> One]
NaN == Special("nan")
Inf == Special("inf")
NInf == Special("ninf")
Raise(kind) == Special(kind)
\* an operation outside the a + b*u closure; never reached (NumbersClosed, CallNumbersClosed)
Unsupported == Special("unsupported")

Fin(a, b, u) ==
    IF b = RZero \/ u.t = "one" \/ (u.t = "sqrt" /\ u.x = RZero)
    THEN [k |-> "num", a |-> a, b |-> RZero, u |-> One]
    ELSE [k |-> "num", a |-> a, b |-> b, u |-> u]

Q(n, d) == Fin(RNorm(n, d), RZero, One)
Num(n) == Q(n, 1)

IsNum(v) == v.k = "num"
IsNaN(v) == v.k = "nan"
IsInf(v) == v.k = "inf"
IsSpecial(v) == v.k \in {"nan", "inf", "ninf"}
IsRaise(v) == v.k \notin {"num", "nan", "inf", "ninf", "unsupported"}
IsRat(v) == IsNum(v) /\ v.b = RZero

\* sign of a finite value (2: not decidable in the representation)
\* a and b*sqrt(r) of opposite signs: the larger square decides
SignSurd(sa, sb, a2, b2r) ==
    IF a2 = b2r THEN 0 ELSE IF RLt(b2r, a2) THEN sa ELSE sb
SignBy(v, sa, sb) ==
    IF sb = 0 THEN sa
    ELSE IF sa = 0 \/ sa = sb THEN sb
    ELSE IF v.u.t = "sqrt"
    THEN SignSurd(sa, sb, RMul(v.a, v.a), RMul(RMul(v.b, v.b), v.u.x))
    ELSE 2
SignFin(v) == SignBy(v, RSign(v.a), RSign(v.b))

Sign(v) ==
    IF v.k = "inf" THEN 1
    ELSE IF v.k = "ninf" THEN -1
    ELSE IF v.k = "num" THEN SignFin(v)
    ELSE 2

Neg(v) ==
    IF v.k = "num" THEN [v EXCEPT !.a = RNeg(v.a), !.b = RNeg(v.b)]
    ELSE IF v.k = "inf" THEN NInf
    ELSE IF v.k = "ninf" THEN Inf
    ELSE v

\* the sum of two finite values, a the sum of their rational parts
AddFin(x, y, a) ==
    IF x.b = RZero THEN Fin(a, y.b, y.u)
    ELSE IF y.b = RZero THEN Fin(a, x.b, x.u)
    ELSE IF x.u = y.u THEN Fin(a, RAdd(x.b, y.b), x.u)
    ELSE Unsupported

Add(x, y) ==
    IF x.k = "unsupported" \/ y.k = "unsupported" THEN Unsupported
    ELSE IF IsNaN(x) \/ IsNaN(y) THEN NaN
    ELSE IF ~IsNum(x) THEN (IF IsNum(y) \/ y.k = x.k THEN x ELSE NaN)
    ELSE IF ~IsNum(y) THEN y
    ELSE AddFin(x, y, RAdd(x.a, y.a))

Sub(x, y) == Add(x, Neg(y))

\* r * v for a rational r
Scale(r, v) == Fin(RMul(r, v.a), RMul(r, v.b), v.u)

MulFin(x, y) ==
    IF x.b = RZero THEN Scale(x.a, y)
    ELSE IF y.b = RZero THEN Scale(y.a, x)
    ELSE IF x.u.t = "sqrt" /\ y.u.t = "sqrt" /\ x.u = y.u
    THEN Fin(RAdd(RMul(x.a, y.a), RMul(RMul(x.b, y.b), x.u.x)),
             RAdd(RMul(x.a, y.b), RMul(x.b, y.a)), x.u)
    ELSE IF x.u.t = "sqrt" /\ y.u.t = "sqrt" /\ x.a = RZero /\ y.a = RZero
    THEN Fin(RZero, RMul(x.b, y.b), SqrtUnit(RMul(x.u.x, y.u.x)))
    ELSE IF x.a = RZero /\ y.a = RZero /\ x.u.t \in {"ann", "inv"}
            /\ y.u = [x.u EXCEPT !.t = IF x.u.t = "ann" THEN "inv" ELSE "ann"]
    THEN Fin(RMul(x.b, y.b), RZero, One)
    ELSE Unsupported

\* inf * 0 is NaN, otherwise the infinity of the product's sign
InfOfSign(s) == IF s = 0 THEN NaN ELSE IF s > 0 THEN Inf ELSE NInf

Mul(x, y) ==
    IF x.k = "unsupported" \/ y.k = "unsupported" THEN Unsupported
    ELSE IF IsNaN(x) \/ IsNaN(y) THEN NaN
    ELSE IF IsNum(x) /\ IsNum(y) THEN MulFin(x, y)
    ELSE InfOfSign(Sign(x) * Sign(y))

\* 1/v for a finite v /= 0
RecipSurd(v, D) ==
    IF D = RZero
    THEN Fin(RInv(RAdd(v.a, v.a)), RZero, One)
    ELSE Fin(RDiv(v.a, D), RNeg(RDiv(v.b, D)), v.u)
Recip(v) ==
    IF v.b = RZero THEN Fin(RInv(v.a), RZero, One)
    ELSE IF v.u.t = "sqrt"
    THEN RecipSurd(v, RSub(RMul(v.a, v.a), RMul(RMul(v.b, v.b), v.u.x)))
    ELSE IF v.a = RZero
    THEN Fin(RZero, RInv(v.b),
             [v.u EXCEPT !.t = IF v.u.t = "ann" THEN "inv" ELSE "ann"])
    ELSE Unsupported

\* numpy float division: x/0 is +-inf or nan, never an exception
DivSigned(x, y, sx, sy) ==
    IF x.k = "unsupported" \/ y.k = "unsupported" THEN Unsupported
    ELSE IF IsNaN(x) \/ IsNaN(y) THEN NaN
    ELSE IF IsNum(y) /\ sy = 0
    THEN (IF sx > 0 THEN Inf ELSE IF sx < 0 THEN NInf ELSE NaN)
    ELSE IF ~IsNum(y) THEN (IF IsNum(x) THEN Num(0) ELSE NaN)
    ELSE IF ~IsNum(x) THEN (IF sx * sy > 0 THEN Inf ELSE NInf)
    ELSE Mul(x, Recip(y))
Div(x, y) == DivSigned(x, y, Sign(x), Sign(y))

\* comparisons: every comparison with NaN is false, except /=
Lt(x, y) ==
    IF IsNaN(x) \/ IsNaN(y) THEN FALSE
    ELSE IF x.k = y.k /\ ~IsNum(x) THEN FALSE
    ELSE IF x.k = "ninf" \/ y.k = "inf" THEN TRUE
    ELSE IF x.k = "inf" \/ y.k = "ninf" THEN FALSE
    ELSE Sign(Sub(x, y)) = -1
Gt(x, y) == Lt(y, x)
Eq(x, y) ==
    IF IsNaN(x) \/ IsNaN(y) THEN FALSE
    ELSE IF ~IsNum(x) \/ ~IsNum(y) THEN x.k = y.k
    ELSE x = y \/ Sign(Sub(x, y)) = 0
Ne(x, y) == ~Eq(x, y)
Le(x, y) == Lt(x, y) \/ Eq(x, y)

\* np.sqrt, and Series.std() = sqrt of the variance
Sqrt(v) ==
    IF IsNaN(v) \/ v.k = "ninf" THEN NaN
    ELSE IF v.k = "inf" THEN Inf
    ELSE IF ~IsRat(v) THEN Unsupported
    ELSE IF RSign(v.a) < 0 THEN NaN
    ELSE Fin(RZero, ROne, SqrtUnit(v.a))

\* abs()
AbsV(v) == IF ~IsNaN(v) /\ Sign(v) < 0 THEN Neg(v) ELSE v


(***************************************************************************)
(* pandas Series primitives.  A column is a sequence of values.            *)
(***************************************************************************)
\* a Series holds its values: they are computed once
AsSeries(f) == <<>> \o f

Last(s) == s[Len(s)]

\* Series.iloc[-k]: the k-th element from the end, IndexError when k > len
ILocBack(s, k) == IF k > Len(s) \/ k < 1 THEN Raise("IndexError") ELSE s[Len(s) - k + 1]

\* Series.iloc[0]
ILocFirst(s) == IF Len(s) = 0 THEN Raise("IndexError") ELSE s[1]

DropNa(s) == SelectSeq(s, LAMBDA v : ~IsNaN(v))

\* the sum of s[lo..hi], halving the range (the recursion stays shallow)
RECURSIVE SumRange(_, _, _)
SumRange(s, lo, hi) ==
    IF lo > hi THEN Num(0)
    ELSE IF lo = hi THEN s[lo]
    ELSE LET mid == (lo + hi) \div 2
         IN  Add(SumRange(s, lo, mid), SumRange(s, mid + 1, hi))
SumTo(s, i) == SumRange(s, 1, i)

\* Series.sum(): NaN entries are skipped
SumOf(t) == SumTo(t, Len(t))
SeriesSum(s) == SumOf(DropNa(s))

\* Series.mean(): NaN entries are skipped, NaN when nothing is left
MeanOf(t) == IF Len(t) = 0 THEN NaN ELSE Div(SumTo(t, Len(t)), Num(Len(t)))
SeriesMean(s) == MeanOf(DropNa(s))

\* Series.var(ddof=1): NaN skipped; NaN for fewer than 2 values, and
\* when a value is infinite (inf - inf)
Square(d) == Mul(d, d)
\* the sum of the squared deviations of t from m, over len(t) - 1
VarAbout(t, m) ==
    IF Len(t) < 2 THEN NaN
    ELSE IF \E i \in 1..Len(t) : ~IsNum(t[i]) THEN NaN
    ELSE Div(SumTo(AsSeries([i \in 1..Len(t) |-> Square(Sub(t[i], m))]), Len(t)),
             Num(Len(t) - 1))
VarOf(t) == VarAbout(t, SeriesMean(t))
SeriesVar(s) == VarOf(DropNa(s))

\* Series.std()
SeriesStd(s) == Sqrt(SeriesVar(s))

\* Series.diff(): NaN at the first index
SeriesDiff(s) == AsSeries([i \in 1..Len(s) |-> IF i = 1 THEN NaN ELSE Sub(s[i], s[i - 1])])

\* Series.shift(): NaN at the first index
SeriesShift(s) == AsSeries([i \in 1..Len(s) |-> IF i = 1 THEN NaN ELSE s[i - 1]])

\* Series.pct_change(): NaN at the first index, x/prev - 1 after it
PctChange(s) ==
    AsSeries([i \in 1..Len(s) |-> IF i = 1 THEN NaN ELSE Sub(Div(s[i], s[i - 1]), Num(1))])

\* Series.cumsum(): the running sums of s[lo..hi] on top of acc
RECURSIVE CumSumRange(_, _, _, _)
CumSumRange(s, acc, lo, hi) ==
    IF lo > hi THEN <<>>
    ELSE IF lo = hi THEN <<Add(acc, s[lo])>>
    ELSE LET mid == (lo + hi) \div 2
             left == CumSumRange(s, acc, lo, mid)
         IN  left \o CumSumRange(s, left[Len(left)], mid + 1, hi)
CumSum(s) == CumSumRange(s, Num(0), 1, Len(s))

\* the trailing window of w values ending at index i (i >= w)
Window(s, w, i) == SubSeq(s, i - w + 1, i)
HasNaN(s) == \E i \in 1..Len(s) : IsNaN(s[i])

RECURSIVE MinRange(_, _, _)
MinRange(s, lo, hi) ==
    IF lo = hi THEN s[lo]
    ELSE LET mid == (lo + hi) \div 2
             l == MinRange(s, lo, mid)
             r == MinRange(s, mid + 1, hi)
         IN  IF Lt(r, l) THEN r ELSE l
SeqMin(s) == MinRange(s, 1, Len(s))

RECURSIVE MaxRange(_, _, _)
MaxRange(s, lo, hi) ==
    IF lo = hi THEN s[lo]
    ELSE LET mid == (lo + hi) \div 2
             l == MaxRange(s, lo, mid)
             r == MaxRange(s, mid + 1, hi)
         IN  IF Gt(r, l) THEN r ELSE l
SeqMax(s) == MaxRange(s, 1, Len(s))

WinMean(win) == Div(SumTo(win, Len(win)), Num(Len(win)))

\* Series.rolling(window=w).<agg>() at index i: NaN until w values are
\* there (min_periods = w) and whenever the window holds a NaN
RollingMeanAt(s, w, i) ==
    IF i < w \/ HasNaN(Window(s, w, i)) THEN NaN ELSE WinMean(Window(s, w, i))
RollingSumAt(s, w, i) ==
    IF i < w \/ HasNaN(Window(s, w, i)) THEN NaN
    ELSE SumTo(Window(s, w, i), w)
RollingStdAt(s, w, i) ==
    IF i < w \/ HasNaN(Window(s, w, i)) THEN NaN ELSE SeriesStd(Window(s, w, i))
RollingMinAt(s, w, i) ==
    IF i < w \/ HasNaN(Window(s, w, i)) THEN NaN ELSE SeqMin(Window(s, w, i))
RollingMaxAt(s, w, i) ==
    IF i < w \/ HasNaN(Window(s, w, i)) THEN NaN ELSE SeqMax(Window(s, w, i))

RollingMean(s, w) == AsSeries([i \in 1..Len(s) |-> RollingMeanAt(s, w, i)])
RollingSum(s, w) == AsSeries([i \in 1..Len(s) |-> RollingSumAt(s, w, i)])
RollingStd(s, w) == AsSeries([i \in 1..Len(s) |-> RollingStdAt(s, w, i)])
RollingMin(s, w) == AsSeries([i \in 1..Len(s) |-> RollingMinAt(s, w, i)])
RollingMax(s, w) == AsSeries([i \in 1..Len(s) |-> RollingMaxAt(s, w, i)])

\* Series.ewm(span, adjust=False).mean():
\* y_0 = x_0, y_t = (1 - alpha) y_(t-1) + alpha x_t, alpha = 2/(span + 1)
EwmStep(prev, x, span) ==
    Add(Mul(Sub(Num(1), Q(2, span + 1)), prev), Mul(Q(2, span + 1), x))

\* the smoothed values of s[lo..hi] given the value prev before them
RECURSIVE EwmRange(_, _, _, _, _)
EwmRange(s, span, prev, lo, hi) ==
    IF lo > hi THEN <<>>
    ELSE IF lo = hi THEN <<EwmStep(prev, s[lo], span)>>
    ELSE LET mid == (lo + hi) \div 2
             left == EwmRange(s, span, prev, lo, mid)
         IN  left \o EwmRange(s, span, left[Len(left)], mid + 1, hi)
\* the smoothing started from 0 instead of the first value
Ewm_from_zero(s, span) == EwmRange(s, span, Num(0), 1, Len(s))
Ewm(s, span) == IF Len(s) = 0 THEN <<>> ELSE <<s[1]>> \o EwmRange(s, span, s[1], 2, Len(s))

(***************************************************************************)
(* The data frame: bars of numbers, and the dtype of the columns the fetch *)
(* leaves as they came ("float" after astype(float), "str" otherwise).     *)
(***************************************************************************)
ColClose(df) == AsSeries([i \in 1..Len(df.bars) |-> Num(df.bars[i].close)])
ColVolume(df) == AsSeries([i \in 1..Len(df.bars) |-> Num(df.bars[i].volume)])
ColHigh(df) == AsSeries([i \in 1..Len(df.bars) |-> Num(df.bars[i].high)])
ColLow(df) == AsSeries([i \in 1..Len(df.bars) |-> Num(df.bars[i].low)])
ColTakerBuyQuote(df) == AsSeries([i \in 1..Len(df.bars) |-> Num(df.bars[i].tbq)])
\* df["volume"] * df["close"]
QuoteVolume(df) ==
    AsSeries([i \in 1..Len(df.bars) |-> Num(df.bars[i].volume * df.bars[i].close)])


(***************************************************************************)
(* analysis/technical.py.  Every series has at least one bar (the data     *)
(* model's N >= 1), so .iloc[-1] is always there.                          *)
(***************************************************************************)
technical_calculate_sma_50(df) ==
    RollingMeanAt(ColClose(df), 50, Len(df.bars))

technical_calculate_ema_20(df) == Last(Ewm(ColClose(df), 20))

\* the undefined first difference kept instead of replaced by 0
Gains_first_undefined(delta) ==
    AsSeries([i \in 1..Len(delta) |->
        IF IsNaN(delta[i]) THEN NaN
        ELSE IF Gt(delta[i], Num(0)) THEN delta[i] ELSE Num(0)])
\* delta.where(delta > 0, 0): NaN > 0 is false, so the first index holds 0
Gains(delta) == AsSeries([i \in 1..Len(delta) |-> IF Gt(delta[i], Num(0)) THEN delta[i] ELSE Num(0)])
\* the losses kept with their sign
Losses_signed(delta) ==
    AsSeries([i \in 1..Len(delta) |-> IF Lt(delta[i], Num(0)) THEN delta[i] ELSE Num(0)])

\* -delta.where(delta < 0, 0)
Losses(delta) ==
    AsSeries([i \in 1..Len(delta) |-> IF Lt(delta[i], Num(0)) THEN Neg(delta[i]) ELSE Num(0)])

RsiSeries(close, period) ==
    LET delta == SeriesDiff(close)
        gain == RollingMean(Gains(delta), period)
        loss == RollingMean(Losses(delta), period)
    IN  AsSeries([i \in 1..Len(close) |->
            Sub(Num(100), Div(Num(100), Add(Num(1), Div(gain[i], loss[i]))))])

technical_calculate_rsi(df, period) ==
    LET rsi == RsiSeries(ColClose(df), period)
    IN  IF \A i \in 1..Len(rsi) : IsNaN(rsi[i]) THEN NaN ELSE Last(rsi)

technical_calculate_macd(df) ==
    LET ema_12 == Ewm(ColClose(df), 12)
        ema_26 == Ewm(ColClose(df), 26)
        macd == [i \in 1..Len(ema_12) |-> Sub(ema_12[i], ema_26[i])]
        signal == Ewm(macd, 9)
    IN  Sub(Last(macd), Last(signal))

\* the bands subtracted the other way round
technical_calculate_bollinger_width_lower_first(df) ==
    LET n == Len(df.bars)
        sma_20 == RollingMeanAt(ColClose(df), 20, n)
        std_20 == RollingStdAt(ColClose(df), 20, n)
        upper == Add(sma_20, Mul(Num(2), std_20))
        lower == Sub(sma_20, Mul(Num(2), std_20))
    IN  Div(Sub(lower, upper), sma_20)

technical_calculate_bollinger_width(df) ==
    LET n == Len(df.bars)
        sma_20 == RollingMeanAt(ColClose(df), 20, n)
        std_20 == RollingStdAt(ColClose(df), 20, n)
        upper == Add(sma_20, Mul(Num(2), std_20))
        lower == Sub(sma_20, Mul(Num(2), std_20))
    IN  Div(Sub(upper, lower), sma_20)

\* max(axis=1) over hl, hc, lc skips the NaN of the first row
TrueRange(df) ==
    LET high == ColHigh(df)
        low == ColLow(df)
        prev == SeriesShift(ColClose(df))
    IN  AsSeries([i \in 1..Len(df.bars) |->
            LET hl == Sub(high[i], low[i])
                hc == AbsV(Sub(high[i], prev[i]))
                lc == AbsV(Sub(low[i], prev[i]))
                row == DropNa(<<hl, hc, lc>>)
            IN  SeqMax(row)])

\* df["high"] - df["low"] on columns of strings is a TypeError
technical_calculate_atr(df, period) ==
    IF df.hl = "str" THEN Raise("TypeError")
    ELSE RollingMeanAt(TrueRange(df), period, Len(df.bars))

\* np.where(diff > 0, 1, -1): the first bar (diff NaN) and an unchanged
\* close both count as -1
technical_calculate_obv(df) ==
    LET d == SeriesDiff(ColClose(df))
        vol == ColVolume(df)
        signed == [i \in 1..Len(d) |->
                      IF Gt(d[i], Num(0)) THEN vol[i] ELSE Neg(vol[i])]
    IN  Last(CumSum(signed))

\* the close weighted in place of the typical price
technical_calculate_vwap_close_only(df) ==
    IF df.hl = "str" THEN Raise("TypeError")
    ELSE LET close == ColClose(df)
             vol == ColVolume(df)
             tpv == [i \in 1..Len(close) |-> Mul(close[i], vol[i])]
         IN  Div(Last(CumSum(tpv)), Last(CumSum(vol)))

\* (high + low) concatenates strings, and adding the float close to that
\* is a TypeError
technical_calculate_vwap(df) ==
    IF df.hl = "str" THEN Raise("TypeError")
    ELSE LET high == ColHigh(df)
             low == ColLow(df)
             close == ColClose(df)
             vol == ColVolume(df)
             tpv == [i \in 1..Len(close) |->
                        Mul(Div(Add(Add(high[i], low[i]), close[i]), Num(3)), vol[i])]
         IN  Div(Last(CumSum(tpv)), Last(CumSum(vol)))

technical_calculate_roc(df, period) ==
    LET ref == ILocBack(ColClose(df), period)
    IN  IF IsRaise(ref) THEN ref
        ELSE Mul(Div(Sub(Last(ColClose(df)), ref), ref), Num(100))

\* the window of lows and highs taken up to the bar before the last
technical_calculate_stochastic_k_previous_window(df, period) ==
    LET n == Len(df.bars)
        lowest_low == RollingMinAt(ColLow(df), period, n - 1)
        highest_high == RollingMaxAt(ColHigh(df), period, n - 1)
    IN  Div(Mul(Num(100), Sub(Last(ColClose(df)), lowest_low)),
            Sub(highest_high, lowest_low))

\* rolling() converts a column of numeric strings to floats itself
technical_calculate_stochastic_k(df, period) ==
    LET n == Len(df.bars)
        lowest_low == RollingMinAt(ColLow(df), period, n)
        highest_high == RollingMaxAt(ColHigh(df), period, n)
    IN  Div(Mul(Num(100), Sub(Last(ColClose(df)), lowest_low)),
            Sub(highest_high, lowest_low))

\* the distance of the close from the lowest low in the numerator
technical_calculate_williams_r_from_low(df, period) ==
    LET n == Len(df.bars)
        highest_high == RollingMaxAt(ColHigh(df), period, n)
        lowest_low == RollingMinAt(ColLow(df), period, n)
    IN  Div(Mul(Num(-100), Sub(Last(ColClose(df)), lowest_low)),
            Sub(highest_high, lowest_low))

technical_calculate_williams_r(df, period) ==
    LET n == Len(df.bars)
        highest_high == RollingMaxAt(ColHigh(df), period, n)
        lowest_low == RollingMinAt(ColLow(df), period, n)
    IN  Div(Mul(Num(-100), Sub(highest_high, Last(ColClose(df)))),
            Sub(highest_high, lowest_low))

technical_calculate_momentum(df, period) ==
    LET ref == ILocBack(ColClose(df), period)
    IN  IF IsRaise(ref) THEN ref ELSE Sub(Last(ColClose(df)), ref)

technical_calculate_volume_oscillator(df) ==
    LET n == Len(df.bars)
        short_ma == RollingMeanAt(ColVolume(df), 5, n)
        long_ma == RollingMeanAt(ColVolume(df), 20, n)
    IN  Mul(Div(Sub(short_ma, long_ma), long_ma), Num(100))

technical_calculate_cmo(df, period) ==
    LET delta == SeriesDiff(ColClose(df))
        up_sum == RollingSum(Gains(delta), period)
        down_sum == RollingSum(Losses(delta), period)
        cmo == AsSeries([i \in 1..Len(delta) |->
                   Div(Mul(Num(100), Sub(up_sum[i], down_sum[i])),
                       Add(up_sum[i], down_sum[i]))])
    IN  IF \A i \in 1..Len(cmo) : IsNaN(cmo[i]) THEN NaN ELSE Last(cmo)

\* the 20-bar high and low taken up to the bar before the last
technical_calculate_channel_breakout_previous_window(df) ==
    LET n == Len(df.bars)
        high_20 == RollingMaxAt(ColHigh(df), 20, n - 1)
        low_20 == RollingMinAt(ColLow(df), 20, n - 1)
        current_price == Last(ColClose(df))
    IN  IF Gt(current_price, high_20) THEN Num(1)
        ELSE IF Lt(current_price, low_20) THEN Num(-1)
        ELSE Num(0)

\* a comparison with NaN is false, so a missing 20-bar high and low give 0
technical_calculate_channel_breakout(df) ==
    LET n == Len(df.bars)
        high_20 == RollingMaxAt(ColHigh(df), 20, n)
        low_20 == RollingMinAt(ColLow(df), 20, n)
        current_price == Last(ColClose(df))
    IN  IF Gt(current_price, high_20) THEN Num(1)
        ELSE IF Lt(current_price, low_20) THEN Num(-1)
        ELSE Num(0)


(***************************************************************************)
(* Circulating supplies are counted in units of 10^5 tokens (every         *)
(* configured supply is a multiple of it), so that a market cap fits the   *)
(* model checker's integers; a market cap is then in units of 10^5 too.    *)
(***************************************************************************)
SupplyUnit == 100 * 1000

\* the sum over t = 1..years of x * (1 + growth)^t / (1 + discount)^t,
\* kept as x times the (positive) sum of the powers
AnnUnit(growth1, discount1, years) ==
    [t |-> "ann", x |-> growth1, y |-> discount1, z |-> years]
DiscountedGrowthSum(x, growth1, discount1, years) ==
    IF years < 1 THEN Num(0)
    ELSE Mul(x, Fin(RZero, ROne, AnnUnit(growth1, discount1, years)))

\* returns.std() * np.sqrt(365)
AnnualizedVolatility(close) ==
    Mul(SeriesStd(DropNa(PctChange(close))), Sqrt(Num(365)))

(***************************************************************************)
(* src/peer.py                                                             *)
(***************************************************************************)
\* the volume taken in tokens instead of in quote currency
peer_calculate_nvt_ratio_base_volume(df, supply) ==
    LET close == ColClose(df)
        volumes == ColVolume(df)
        ratio == [i \in 1..Len(close) |-> Div(Mul(close[i], Num(supply)), volumes[i])]
    IN  SeriesMean(ratio)

peer_calculate_nvt_ratio(df, supply) ==
    LET close == ColClose(df)
        volumes == QuoteVolume(df)
        ratio == [i \in 1..Len(close) |-> Div(Mul(close[i], Num(supply)), volumes[i])]
    IN  SeriesMean(ratio)

peer_calculate_sharpe_ratio(df) ==
    LET returns == DropNa(PctChange(ColClose(df)))
        staking_apy == Q(5, 100 * 365)
        risk_free_rate == Q(25, 1000 * 365)
        excess_returns ==
            [i \in 1..Len(returns) |-> Sub(Add(returns[i], staking_apy), risk_free_rate)]
    IN  IF Ne(SeriesStd(excess_returns), Num(0))
        THEN Mul(Div(SeriesMean(excess_returns), SeriesStd(excess_returns)),
                 Sqrt(Num(365)))
        ELSE Inf

peer_calculate_price_volume_ratio(df) ==
    LET current_price == Last(ColClose(df))
        avg_volume == SeriesMean(QuoteVolume(df))
    IN  IF Ne(avg_volume, Num(0)) THEN Div(current_price, avg_volume) ELSE Inf

peer_calculate_mayer_multiple(df) ==
    LET ma_200 == RollingMeanAt(ColClose(df), 200, Len(df.bars))
        current_price == Last(ColClose(df))
    IN  IF Ne(ma_200, Num(0)) THEN Div(current_price, ma_200) ELSE Inf

\* 1 if nvt > 50 or mayer > 2.4 else 0, the NVT counted back in tokens
peer_calculate_speculative_signal(nvt, mayer) ==
    IF Gt(Mul(nvt, Num(SupplyUnit)), Num(50)) \/ Gt(mayer, Q(24, 10))
    THEN Num(1) ELSE Num(0)

peer_calculate_price_stability_ratio(df) ==
    LET volatility == AnnualizedVolatility(ColClose(df))
        avg_price == SeriesMean(ColClose(df))
    IN  IF Ne(volatility, Num(0)) THEN Div(avg_price, volatility) ELSE Inf

peer_calculate_rsi(df, period) ==
    LET rsi == RsiSeries(ColClose(df), period)
    IN  IF \A i \in 1..Len(rsi) : IsNaN(rsi[i]) THEN NaN ELSE Last(rsi)

peer_calculate_macd(df) ==
    LET ema_12 == Ewm(ColClose(df), 12)
        ema_26 == Ewm(ColClose(df), 26)
        macd == [i \in 1..Len(ema_12) |-> Sub(ema_12[i], ema_26[i])]
        signal == Ewm(macd, 9)
    IN  Sub(Last(macd), Last(signal))

(***************************************************************************)
(* src/fundamental.py: every supply is the literal 16000000                *)
(***************************************************************************)
fundamental_circulating_supply == (16 * 1000 * 1000) \div SupplyUnit

fundamental_calculate_price_volume_ratio(df) ==
    LET current_price == Last(ColClose(df))
        avg_volume == SeriesMean(QuoteVolume(df))
    IN  IF Ne(avg_volume, Num(0)) THEN Div(current_price, avg_volume) ELSE Inf

\* (end / start) ** (1 / years) - 1 with years = 1
fundamental_calculate_market_cap_growth(df) ==
    LET start_market_cap == Mul(ColClose(df)[1], Num(fundamental_circulating_supply))
        end_market_cap == Mul(Last(ColClose(df)), Num(fundamental_circulating_supply))
    IN  IF Ne(start_market_cap, Num(0))
        THEN Sub(Div(end_market_cap, start_market_cap), Num(1))
        ELSE Inf

fundamental_calculate_volume_cagr(df) ==
    LET start_volume == QuoteVolume(df)[1]
        end_volume == Last(QuoteVolume(df))
    IN  IF Ne(start_volume, Num(0))
        THEN Sub(Div(end_volume, start_volume), Num(1))
        ELSE Inf

fundamental_calculate_liquidity_ratio(df) ==
    LET market_cap == Mul(Last(ColClose(df)), Num(fundamental_circulating_supply))
        avg_daily_volume == SeriesMean(QuoteVolume(df))
    IN  IF Ne(market_cap, Num(0)) THEN Div(avg_daily_volume, market_cap) ELSE Inf

\* the quotient taken without the zero test
fundamental_calculate_mayer_multiple_unguarded(df) ==
    LET ma_200 == RollingMeanAt(ColClose(df), 200, Len(df.bars))
        current_price == Last(ColClose(df))
    IN  Div(current_price, ma_200)

fundamental_calculate_mayer_multiple(df) ==
    LET ma_200 == RollingMeanAt(ColClose(df), 200, Len(df.bars))
        current_price == Last(ColClose(df))
    IN  IF Ne(ma_200, Num(0)) THEN Div(current_price, ma_200) ELSE Inf

fundamental_calculate_price_momentum(df) ==
    Div(Sub(Last(ColClose(df)), ColClose(df)[1]), ColClose(df)[1])

fundamental_calculate_volume_momentum(df) ==
    LET qv == QuoteVolume(df)
        half == Len(qv) \div 2
        early_volume == SeriesMean(SubSeq(qv, 1, half))
        late_volume == SeriesMean(SubSeq(qv, half + 1, Len(qv)))
    IN  IF Ne(early_volume, Num(0))
        THEN Div(Sub(late_volume, early_volume), early_volume)
        ELSE Inf

fundamental_calculate_volatility_adjusted_market_cap(df) ==
    LET market_cap == Mul(Last(ColClose(df)), Num(fundamental_circulating_supply))
        volatility == AnnualizedVolatility(ColClose(df))
    IN  IF Ne(volatility, Num(0))
        THEN Div(market_cap, Add(Num(1), volatility))
        ELSE market_cap

fundamental_calculate_turnover_ratio(df) ==
    LET total_volume == SeriesSum(QuoteVolume(df))
    IN  IF fundamental_circulating_supply # 0
        THEN Div(total_volume, Num(fundamental_circulating_supply))
        ELSE Inf

fundamental_calculate_price_stability_ratio(df) ==
    LET volatility == AnnualizedVolatility(ColClose(df))
        avg_price == SeriesMean(ColClose(df))
    IN  IF Ne(volatility, Num(0)) THEN Div(avg_price, volatility) ELSE Inf

fundamental_calculate_volume_to_price_ratio(df) ==
    LET avg_volume == SeriesMean(QuoteVolume(df))
        current_price == Last(ColClose(df))
    IN  IF Ne(current_price, Num(0)) THEN Div(avg_volume, current_price) ELSE Inf

\* discount_rate = 0.12, growth_rate = 0.08, years = 5
fundamental_calculate_deuv(df) ==
    LET market_cap == Mul(Last(ColClose(df)), Num(fundamental_circulating_supply))
        current_volume == SeriesMean(QuoteVolume(df))
        discounted_volume ==
            DiscountedGrowthSum(current_volume, RNorm(108, 100), RNorm(112, 100), 5)
    IN  IF Ne(discounted_volume, Num(0))
        THEN Div(market_cap, discounted_volume)
        ELSE Inf

fundamental_calculate_price_to_volatility_cost(df) ==
    LET current_price == Last(ColClose(df))
        volatility == AnnualizedVolatility(ColClose(df))
        volatility_cost == Mul(current_price, volatility)
    IN  IF Ne(volatility_cost, Num(0))
        THEN Div(current_price, volatility_cost)
        ELSE Inf

\* haircut = 0.20
fundamental_calculate_regulatory_discount(df) ==
    Mul(Last(ColClose(df)), Sub(Num(1), Q(20, 100)))


(***************************************************************************)
(* src/quantitative.py: every supply is the literal 16000000               *)
(***************************************************************************)
quantitative_circulating_supply == (16 * 1000 * 1000) \div SupplyUnit

quantitative_calculate_cuv(df) ==
    LET market_cap == Mul(Last(ColClose(df)), Num(quantitative_circulating_supply))
        avg_volume == SeriesMean(QuoteVolume(df))
    IN  IF Ne(avg_volume, Num(0)) THEN Div(market_cap, avg_volume) ELSE Inf

quantitative_calculate_deuv(df) ==
    LET market_cap == Mul(Last(ColClose(df)), Num(quantitative_circulating_supply))
        current_volume == SeriesMean(QuoteVolume(df))
        discounted_volume ==
            DiscountedGrowthSum(current_volume, RNorm(108, 100), RNorm(112, 100), 5)
    IN  IF Ne(discounted_volume, Num(0))
        THEN Div(market_cap, discounted_volume)
        ELSE Inf

\* the dict {"buy_volume": .., "sell_volume": ..}
quantitative_calculate_volume_composition(df) ==
    LET buy_volume == SeriesSum(ColTakerBuyQuote(df))
        total_volume == SeriesSum(QuoteVolume(df))
        sell_volume == Sub(total_volume, buy_volume)
    IN  IF Ne(total_volume, Num(0))
        THEN [buy_volume |-> Div(buy_volume, total_volume),
              sell_volume |-> Div(sell_volume, total_volume)]
        ELSE [buy_volume |-> Num(0), sell_volume |-> Num(0)]

\* (early - late) / early is computed as 1 - late / early, the same real;
\* max(0, x) is x when x > 0 and 0 otherwise, also for a NaN
quantitative_calculate_volatility_reduction(df) ==
    LET returns == DropNa(PctChange(ColClose(df)))
        half == Len(returns) \div 2
        early_vol == Mul(SeriesStd(SubSeq(returns, 1, half)), Sqrt(Num(365)))
        late_vol == Mul(SeriesStd(SubSeq(returns, half + 1, Len(returns))),
                        Sqrt(Num(365)))
        reduction == IF Ne(early_vol, Num(0))
                     THEN Sub(Num(1), Div(late_vol, early_vol))
                     ELSE Num(0)
    IN  IF Gt(reduction, Num(0)) THEN reduction ELSE Num(0)

\* risk_free_rate = 0.025, beta = 1.4, market_risk_premium = 0.06
quantitative_calculate_risk_adjusted_volume_discount(df) ==
    LET volatility == AnnualizedVolatility(ColClose(df))
        avg_volume == SeriesMean(QuoteVolume(df))
        discount_rate == Add(Q(25, 1000), Mul(Q(14, 10), Q(6, 100)))
        risk_adjusted_volume ==
            Div(avg_volume, Add(Num(1), Mul(discount_rate, volatility)))
    IN  IF Ne(avg_volume, Num(0)) THEN Div(risk_adjusted_volume, avg_volume)
        ELSE Num(0)

quantitative_calculate_trading_volume(df) == SeriesMean(QuoteVolume(df))

quantitative_calculate_volume_volatility(df) ==
    LET volumes == QuoteVolume(df)
    IN  IF Ne(SeriesMean(volumes), Num(0))
        THEN Div(SeriesStd(volumes), SeriesMean(volumes))
        ELSE Num(0)

\* a zero spread answered with 1 instead of 0 / 0
quantitative_calculate_price_correlation_guarded(df) ==
    LET returns == DropNa(PctChange(ColClose(df)))
        cov == SeriesVar(returns)
        std == SeriesStd(returns)
    IN  IF Eq(std, Num(0)) THEN Num(1) ELSE Div(cov, Mul(std, std))

\* np.corrcoef(returns, returns)[0, 1] = cov / (std * std)
quantitative_calculate_price_correlation(df) ==
    LET returns == DropNa(PctChange(ColClose(df)))
        cov == SeriesVar(returns)
        std == SeriesStd(returns)
    IN  Div(cov, Mul(std, std))

\* discount_rate = 0.15, growth_rate = 0.10, years = 5
quantitative_calculate_price_dcf(df) ==
    LET current_price == Last(ColClose(df))
        discounted_price ==
            DiscountedGrowthSum(current_price, RNorm(110, 100), RNorm(115, 100), 5)
        valuation_ratio == IF Ne(current_price, Num(0))
                           THEN Div(discounted_price, current_price)
                           ELSE Inf
    IN  [intrinsic_value |-> discounted_price, valuation_ratio |-> valuation_ratio]

\* .iloc[-30:]: the last 30 rows, or all of them when there are fewer
quantitative_calculate_price_volume_ratio_alt(df) ==
    LET qv == QuoteVolume(df)
        current_price == Last(ColClose(df))
        recent_volume ==
            SeriesMean(SubSeq(qv, IF Len(qv) > 30 THEN Len(qv) - 29 ELSE 1, Len(qv)))
    IN  IF Ne(recent_volume, Num(0)) THEN Div(current_price, recent_volume) ELSE Inf


(***************************************************************************)
(* main.py: configuration                                                  *)
(***************************************************************************)
\* the keys of COIN_CONFIG in their insertion order
CoinOrder == <<"BTC", "ETH", "AAVE", "SOL", "BNB", "UNI", "LINK">>
Coins == {CoinOrder[i] : i \in 1..Len(CoinOrder)}

COIN_CONFIG ==
    [BTC  |-> [symbol |-> "BTCUSDT",  supply |-> 19700000 \div SupplyUnit],
     ETH  |-> [symbol |-> "ETHUSDT",  supply |-> 120000000 \div SupplyUnit],
     AAVE |-> [symbol |-> "AAVEUSDT", supply |-> 16000000 \div SupplyUnit],
     SOL  |-> [symbol |-> "SOLUSDT",  supply |-> 500000000 \div SupplyUnit],
     BNB  |-> [symbol |-> "BNBUSDT",  supply |-> 150000000 \div SupplyUnit],
     UNI  |-> [symbol |-> "UNIUSDT",  supply |-> 600000000 \div SupplyUnit],
     LINK |-> [symbol |-> "LINKUSDT", supply |-> 500000000 \div SupplyUnit]]

\* s.replace("USDT", "")
TokenOf(symbol) == CHOOSE c \in Coins : COIN_CONFIG[c].symbol = symbol

\* list.index(x): the first position of x, counted from 0
IndexOf(seq, x) == (CHOOSE i \in 1..Len(seq) : seq[i] = x /\ \A j \in 1..(i - 1) : seq[j] # x) - 1

AnalysisOrder == <<"peer", "fundamental", "quantitative", "technical">>
Analyses == {AnalysisOrder[i] : i \in 1..Len(AnalysisOrder)}
None == "None"

\* parse_query: the query is the set of coin names and the set of analysis
\* keywords that occur in its text; the first of each, in the order of
\* COIN_CONFIG and of the keyword list, is taken
FirstIn(order, found) ==
    IF \E i \in 1..Len(order) : order[i] \in found
    THEN order[CHOOSE i \in 1..Len(order) :
                   order[i] \in found /\ \A j \in 1..(i - 1) : order[j] \notin found]
    ELSE None

\* the date range of a query: "last N days|months|years" is looked for
\* first, "from A to B" only when it is absent; dates are counted in days
\* since 1970-01-01, and a text or a date that is absent is the empty
\* sequence
DaysPer(unit) ==
    CASE unit = "days" -> 1 [] unit = "months" -> 30 [] unit = "years" -> 365

\* the analysis keywords looked for from the end of the list
parse_query_last_keyword(query) ==
    [coin |-> FirstIn(CoinOrder, query.coins),
     analysis |-> FirstIn(<<"technical", "quantitative", "fundamental", "peer">>,
                         query.kinds),
     days |-> IF query.last # <<>> THEN query.last[1] * DaysPer(query.last[2])
              ELSE 365,
     start_date |-> IF query.last = <<>> /\ query.span # <<>>
                    THEN <<query.span[1]>> ELSE <<>>,
     end_date |-> IF query.last = <<>> /\ query.span # <<>>
                  THEN <<query.span[2]>> ELSE <<>>]

parse_query(query) ==
    [coin |-> FirstIn(CoinOrder, query.coins),
     analysis |-> FirstIn(AnalysisOrder, query.kinds),
     days |-> IF query.last # <<>> THEN query.last[1] * DaysPer(query.last[2])
              ELSE 365,
     start_date |-> IF query.last = <<>> /\ query.span # <<>>
                    THEN <<query.span[1]>> ELSE <<>>,
     end_date |-> IF query.last = <<>> /\ query.span # <<>>
                  THEN <<query.span[2]>> ELSE <<>>]

\* configure_dates: timestamps in days; a date is never falsy, and
\* "days or 365" takes 365 for 0 days
configure_dates(days, start_date, end_date) ==
    IF start_date # <<>> /\ end_date # <<>>
    THEN [start_ts |-> start_date[1], end_ts |-> end_date[1]]
    ELSE [start_ts |-> 20185 - (IF days # 0 THEN days ELSE 365),
          end_ts |-> 20185]

\* peer.py: START_DATE = datetime(2024, 4, 7), END_DATE = datetime(2025, 4, 7),
\* the names fetch_binance_data reads when it builds its request
START_DATE == 19820
END_DATE == 20185

(***************************************************************************)
(* main.py: the four reports.  A dict literal evaluates its values in      *)
(* order, so the first indicator that raises ends the function.            *)
(***************************************************************************)
Slot(name, value) == [name |-> name, value |-> value]
Names(metrics) == [i \in 1..Len(metrics) |-> metrics[i].name]
\* the values listed last to first
Values_reversed(metrics) ==
    [i \in 1..Len(metrics) |-> metrics[Len(metrics) + 1 - i].value]
Values(metrics) == [i \in 1..Len(metrics) |-> metrics[i].value]
Raises(metrics) == \E i \in 1..Len(metrics) : IsRaise(metrics[i].value)
FirstRaise(metrics) ==
    metrics[CHOOSE i \in 1..Len(metrics) :
                IsRaise(metrics[i].value)
                /\ \A j \in 1..(i - 1) : ~IsRaise(metrics[j].value)].value.k

NoCsv == [path |-> None, Metric |-> <<>>, columns |-> <<>>]
Returned(csv) == [exception |-> None, csv |-> csv]
Raised(kind) == [exception |-> kind, csv |-> NoCsv]

\* csv_data = {"Metric": list(metrics.keys()), "Value": list(metrics.values())}
SingleCsv(coin, suffix, metrics) ==
    [path |-> <<coin, suffix>>,
     Metric |-> Names(metrics),
     columns |-> <<[name |-> "Value", values |-> Values(metrics)]>>]

\* metrics = {...}; pd.DataFrame(csv_data).to_csv(csv_path): the first
\* indicator that raises leaves the function, otherwise the table is written
MetricsCsv(coin, suffix, metrics) ==
    IF Raises(metrics) THEN Raised(FirstRaise(metrics))
    ELSE Returned(SingleCsv(coin, suffix, metrics))

\* COIN_CONFIG[c]["symbol"] for c in COIN_CONFIG if c != coin, then symbol
peer_symbols(coin) ==
    LET others == SelectSeq(CoinOrder, LAMBDA c : c # coin)
    IN  [i \in 1..Len(others) |-> COIN_CONFIG[others[i]].symbol]
        \o <<COIN_CONFIG[coin].symbol>>

\* COIN_CONFIG[list(COIN_CONFIG.keys())[peer_symbols.index(s)]]["supply"]
peer_supply(coin, s) ==
    COIN_CONFIG[CoinOrder[IndexOf(peer_symbols(coin), s) + 1]].supply

\* results[symbol] = {...}, nvt and mayer computed before the dict
peer_result_dict(df, nvt, mayer) ==
    <<Slot("NVT Ratio", nvt),
      Slot("Sharpe Ratio", peer_calculate_sharpe_ratio(df)),
      Slot("Price/Volume Ratio", peer_calculate_price_volume_ratio(df)),
      Slot("Mayer Multiple", mayer),
      Slot("Speculative Signal", peer_calculate_speculative_signal(nvt, mayer)),
      Slot("Price Stability Ratio", peer_calculate_price_stability_ratio(df)),
      Slot("RSI", peer_calculate_rsi(df, 14)),
      Slot("MACD Histogram", peer_calculate_macd(df))>>

peer_results(df, supply) ==
    peer_result_dict(df, peer_calculate_nvt_ratio(df, supply),
                     peer_calculate_mayer_multiple(df))

\* data: symbol -> data frame, for every symbol of peer_symbols(coin)
\* the table of the results: one column per symbol, the metric names of
\* the last one
peer_csv(coin, syms, results) ==
    Returned([path |-> <<coin, "peer_analysis">>,
              Metric |-> Names(results[Len(syms)]),
              columns |-> [i \in 1..Len(syms) |->
                              [name |-> TokenOf(syms[i]),
                               values |-> Values(results[i])]]])

peer_all_results(coin, data, syms) ==
    AsSeries([i \in 1..Len(syms) |->
                 peer_results(data[syms[i]], peer_supply(coin, syms[i]))])

run_peer_analysis(coin, data) ==
    peer_csv(coin, peer_symbols(coin),
             peer_all_results(coin, data, peer_symbols(coin)))

fundamental_metrics(coin, df) ==
    <<Slot("NVT Ratio", peer_calculate_nvt_ratio(df, COIN_CONFIG[coin].supply)),
      Slot("Price/Volume Ratio", peer_calculate_price_volume_ratio(df)),
      Slot("Market Cap Growth Rate", fundamental_calculate_market_cap_growth(df)),
      Slot("Volume CAGR", fundamental_calculate_volume_cagr(df)),
      Slot("Liquidity Ratio", fundamental_calculate_liquidity_ratio(df)),
      Slot("Mayer Multiple", peer_calculate_mayer_multiple(df)),
      Slot("Price Momentum", fundamental_calculate_price_momentum(df)),
      Slot("Volume Momentum", fundamental_calculate_volume_momentum(df)),
      Slot("Volatility-Adjusted Market Cap",
           fundamental_calculate_volatility_adjusted_market_cap(df)),
      Slot("Turnover Ratio", fundamental_calculate_turnover_ratio(df)),
      Slot("Price Stability Ratio", peer_calculate_price_stability_ratio(df)),
      Slot("Volume-to-Price Ratio", fundamental_calculate_volume_to_price_ratio(df)),
      Slot("Discounted Expected Utility Value", fundamental_calculate_deuv(df)),
      Slot("Price to Volatility Cost",
           fundamental_calculate_price_to_volatility_cost(df)),
      Slot("Regulatory Discount", fundamental_calculate_regulatory_discount(df))>>

run_fundamental_analysis(coin, df) ==
    MetricsCsv(coin, "fundamental_metrics", fundamental_metrics(coin, df))

quantitative_metrics(coin, df) ==
    <<Slot("NVT Ratio", peer_calculate_nvt_ratio(df, COIN_CONFIG[coin].supply)),
      Slot("Price/Volume Ratio", peer_calculate_price_volume_ratio(df)),
      Slot("Sharpe Ratio", peer_calculate_sharpe_ratio(df)),
      Slot("Current Utility Value", quantitative_calculate_cuv(df)),
      Slot("Discounted Expected Utility Value", fundamental_calculate_deuv(df)),
      Slot("Volume CAGR", fundamental_calculate_volume_cagr(df)),
      Slot("Volume Composition (Buy)",
           quantitative_calculate_volume_composition(df).buy_volume),
      Slot("Volume Composition (Sell)",
           quantitative_calculate_volume_composition(df).sell_volume),
      Slot("Volatility Reduction", quantitative_calculate_volatility_reduction(df)),
      Slot("Price Momentum", fundamental_calculate_price_momentum(df)),
      Slot("Risk-Adjusted Volume Discount",
           quantitative_calculate_risk_adjusted_volume_discount(df)),
      Slot("Trading Volume", quantitative_calculate_trading_volume(df)),
      Slot("Volume Volatility", quantitative_calculate_volume_volatility(df)),
      Slot("Price Stability Ratio", peer_calculate_price_stability_ratio(df)),
      Slot("Volume-to-Price Ratio", fundamental_calculate_volume_to_price_ratio(df)),
      Slot("Price Correlation", quantitative_calculate_price_correlation(df)),
      Slot("Mayer Multiple", peer_calculate_mayer_multiple(df)),
      Slot("Price DCF Intrinsic Value",
           quantitative_calculate_price_dcf(df).intrinsic_value),
      Slot("Price DCF Valuation Ratio",
           quantitative_calculate_price_dcf(df).valuation_ratio),
      Slot("Price to Volatility Cost",
           fundamental_calculate_price_to_volatility_cost(df)),
      Slot("Regulatory Discount", fundamental_calculate_regulatory_discount(df)),
      Slot("Price/Volume Ratio (Alt)",
           quantitative_calculate_price_volume_ratio_alt(df))>>

run_quantitative_analysis(coin, df) ==
    MetricsCsv(coin, "quantitative_metrics", quantitative_metrics(coin, df))

technical_metrics(df) ==
    <<Slot("SMA 50-day", technical_calculate_sma_50(df)),
      Slot("EMA 20-day", technical_calculate_ema_20(df)),
      Slot("RSI", peer_calculate_rsi(df, 14)),
      Slot("MACD Histogram", peer_calculate_macd(df)),
      Slot("Bollinger Bands Width", technical_calculate_bollinger_width(df)),
      Slot("ATR", technical_calculate_atr(df, 14)),
      Slot("OBV", technical_calculate_obv(df)),
      Slot("VWAP", technical_calculate_vwap(df)),
      Slot("Price ROC", technical_calculate_roc(df, 14)),
      Slot("Stochastic %K", technical_calculate_stochastic_k(df, 14)),
      Slot("Williams %R", technical_calculate_williams_r(df, 14)),
      Slot("Momentum", technical_calculate_momentum(df, 10)),
      Slot("Volume Oscillator", technical_calculate_volume_oscillator(df)),
      Slot("Chande Momentum Oscillator", technical_calculate_cmo(df, 14)),
      Slot("Price Channel Breakout", technical_calculate_channel_breakout(df))>>

run_technical_analysis(coin, df) ==
    MetricsCsv(coin, "technical_metrics", technical_metrics(df))


(***************************************************************************)
(* What the exchange can answer.  A data frame is the wire type of the     *)
(* high and low columns (fetch_binance_data converts close and volume      *)
(* only) and the bars.  Shape(n, a, b, v, hl) closes at a on every bar but *)
(* the last, which closes at b; every bar trades volume v.                 *)
(***************************************************************************)
MaxClose == 2
MaxVolume == 2

Bar(c, v) == [high |-> c + 1, low |-> c, close |-> c, volume |-> v,
              tbq |-> IF v = 0 THEN 0 ELSE 1]
Shape(n, a, b, v, hl) ==
    [hl |-> hl, bars |-> [i \in 1..n |-> IF i < n THEN Bar(a, v) ELSE Bar(b, v)]]

WireTypes == {"str", "float"}
AppLengths == {1, 2, 14, 20}
AppFrames ==
    {Shape(n, a, b, v, hl) : n \in AppLengths, a \in 1..MaxClose, b \in 0..MaxClose,
                             v \in {0, MaxVolume}, hl \in WireTypes}
PeerFrames == {Shape(2, 1, MaxClose, 1, "str"), Shape(1, 1, 1, MaxVolume, "str")}
Frames(analysis) == IF analysis = "peer" THEN PeerFrames ELSE AppFrames

\* queries that name a date range: "last 6 months", "last 0 days",
\* "from 2024-01-01 to 2024-03-01", and one with both forms
DatedQueries ==
    {[coins |-> {"ETH"}, kinds |-> {"fundamental"}, last |-> l, span |-> s] :
        l \in {<<6, "months">>, <<0, "days">>, <<>>},
        s \in {<<19723, 19783>>, <<>>}}
    \cup {[coins |-> {"BTC"}, kinds |-> {"technical"},
           last |-> <<2, "years">>, span |-> <<>>],
          [coins |-> {}, kinds |-> {"technical"},
           last |-> <<6, "months">>, span |-> <<>>]}

\* a query is the coin names and the analysis keywords its text contains:
\* at most one of each, and some with several
Undated(C, K) == [coins |-> C, kinds |-> K, last |-> <<>>, span |-> <<>>]
Queries ==
    {Undated(C, K) :
        C \in {{}} \cup {{c} : c \in Coins},
        K \in {{}} \cup {{k} : k \in Analyses}}
    \cup {Undated({"ETH", "LINK"}, {"peer", "technical"}),
          Undated({"AAVE", "BTC"}, {"quantitative", "technical"}),
          Undated({"SOL"}, {"fundamental", "quantitative"}),
          Undated({"BNB", "UNI"}, Analyses)}
    \cup DatedQueries

(***************************************************************************)
(* main.py: one run of the page per submitted query                        *)
(***************************************************************************)
VARIABLES pc, query, parsed, todo, data, fetched, failed, csv, shown,
          warnings, errors, llmCalls
\* startTime and endTime of the klines requests made in the run
VARIABLE window
\* one call of an indicator on its own: the frame, the function, its extra
\* argument and what it returned
VARIABLES series, fn, arg, out
appVars == <<pc, query, parsed, todo, data, fetched, failed, csv, shown,
             warnings, errors, llmCalls, window>>
callVars == <<series, fn, arg, out>>
vars == <<appVars, callVars>>

NoQuery == Undated({}, {})
NoData == [s \in {} |-> None]
NoFrame == [hl |-> "float", bars |-> <<>>]

NoCall ==
    /\ series = NoFrame
    /\ fn = "none"
    /\ arg = 0
    /\ out = None

PageIdle ==
    /\ pc = "idle"
    /\ query = NoQuery
    /\ parsed = parse_query(NoQuery)
    /\ todo = <<>>
    /\ data = NoData
    /\ fetched = 0
    /\ failed = FALSE
    /\ csv = NoCsv
    /\ shown = FALSE
    /\ warnings = 0
    /\ errors = 0
    /\ llmCalls = 0
    /\ window = {}

Init == PageIdle /\ NoCall

\* a new query makes the script run again from the top: every name and
\* every element of the last run is gone
Rerun ==
    /\ pc = "done"
    /\ pc' = "idle"
    /\ query' = NoQuery
    /\ parsed' = parse_query(NoQuery)
    /\ todo' = <<>>
    /\ data' = NoData
    /\ fetched' = 0
    /\ failed' = FALSE
    /\ csv' = NoCsv
    /\ shown' = FALSE
    /\ warnings' = 0
    /\ errors' = 0
    /\ llmCalls' = 0
    /\ window' = {}
    /\ UNCHANGED callVars

\* query = st.text_input(...); parsed_query = parse_query(query)
Submit(q) ==
    /\ pc = "idle"
    /\ query' = q
    /\ parsed' = parse_query(q)
    /\ pc' = "parsed"
    /\ UNCHANGED <<todo, data, fetched, failed, csv, shown, warnings, errors,
                   llmCalls, window, callVars>>

\* if not coin or not analysis: st.warning(...)
Warn ==
    /\ pc = "parsed"
    /\ parsed.coin = None \/ parsed.analysis = None
    /\ warnings' = warnings + 1
    /\ pc' = "done"
    /\ UNCHANGED <<query, parsed, todo, data, fetched, failed, csv, shown,
                   errors, llmCalls, window,
                   callVars>>

\* else: start_ts, end_ts = configure_dates(...) and START_DATE = start_ts,
\* END_DATE = end_ts bind names of main.py only; the analysis function is
\* entered, takes start_ts and end_ts without reading them, and lists what
\* it will fetch
Dispatch ==
    /\ pc = "parsed"
    /\ parsed.coin # None /\ parsed.analysis # None
    /\ todo' = IF parsed.analysis = "peer" THEN peer_symbols(parsed.coin)
               ELSE <<COIN_CONFIG[parsed.coin].symbol>>
    /\ pc' = "fetch"
    /\ UNCHANGED <<query, parsed, data, fetched, failed, csv, shown,
                   warnings, errors, llmCalls, window,
                   callVars>>

\* fetch_binance_data(symbol) asks for the days from START_DATE to END_DATE
\* of peer.py and answers 200 with a frame
FetchOk(df) ==
    /\ pc = "fetch"
    /\ todo # <<>>
    /\ window' = window \cup {[startTime |-> START_DATE, endTime |-> END_DATE]}
    /\ data' = [s \in DOMAIN data \cup {Head(todo)} |->
                   IF s = Head(todo) THEN df ELSE data[s]]
    /\ todo' = Tail(todo)
    /\ fetched' = fetched + 1
    /\ UNCHANGED <<pc, query, parsed, failed, csv, shown, warnings, errors,
                   llmCalls,
                   callVars>>

\* the failure is caught inside the analysis function, which returns no
\* path: the page goes on to the presentation
FetchFail_caught_inside ==
    /\ pc = "fetch"
    /\ todo # <<>>
    /\ window' = window \cup {[startTime |-> START_DATE, endTime |-> END_DATE]}
    /\ failed' = TRUE
    /\ todo' = <<>>
    /\ data' = NoData
    /\ errors' = errors + 1
    /\ pc' = "present"
    /\ UNCHANGED <<query, parsed, fetched, csv, shown, warnings, llmCalls,
                   callVars>>

\* fetch_binance_data(symbol) raises; the exception leaves the analysis
\* function and is reported by the except clause of the page
FetchFail ==
    /\ pc = "fetch"
    /\ todo # <<>>
    /\ window' = window \cup {[startTime |-> START_DATE, endTime |-> END_DATE]}
    /\ failed' = TRUE
    /\ todo' = <<>>
    /\ data' = NoData
    /\ errors' = errors + 1
    /\ pc' = "done"
    /\ UNCHANGED <<query, parsed, fetched, csv, shown, warnings, llmCalls,
                   callVars>>

run_analysis(analysis, coin, d) ==
    CASE analysis = "peer" -> run_peer_analysis(coin, d)
      [] analysis = "fundamental" ->
             run_fundamental_analysis(coin, d[COIN_CONFIG[coin].symbol])
      [] analysis = "quantitative" ->
             run_quantitative_analysis(coin, d[COIN_CONFIG[coin].symbol])
      [] analysis = "technical" ->
             run_technical_analysis(coin, d[COIN_CONFIG[coin].symbol])

\* csv_path = run_..._analysis(...) returned r, or the except clause ran
Outcome(r) ==
    IF r.exception = None
    THEN /\ csv' = r.csv
         /\ pc' = "present"
         /\ UNCHANGED <<errors, data>>
    ELSE /\ csv' = NoCsv
         /\ errors' = errors + 1
         /\ data' = NoData
         /\ pc' = "done"

\* the metrics are computed and the table is written with to_csv, or an
\* indicator raises and the except clause reports it
Assemble ==
    /\ pc = "fetch"
    /\ todo = <<>>
    /\ Outcome(run_analysis(parsed.analysis, parsed.coin, data))
    /\ UNCHANGED <<query, parsed, todo, fetched, failed, shown, warnings,
                   llmCalls, window,
                   callVars>>

\* st.dataframe(pd.read_csv(csv_path)); get_llm_response(query, csv_data, None)
Present ==
    /\ pc = "present"
    /\ shown' = TRUE
    /\ llmCalls' = llmCalls + 1
    /\ pc' = "done"
    /\ UNCHANGED <<query, parsed, todo, data, fetched, failed, csv, warnings,
                   errors, window,
                   callVars>>

Next ==
    \/ \E q \in Queries : Submit(q)
    \/ Warn
    \/ Dispatch
    \/ \E df \in Frames(parsed.analysis) : FetchOk(df)
    \/ FetchFail
    \/ Assemble
    \/ Present
    \/ Rerun

Spec == Init /\ [][Next]_vars

\* every reported value is inside the modelled number system
NumbersClosed ==
    \A i \in 1..Len(csv.columns) : \A j \in 1..Len(csv.columns[i].values) :
        csv.columns[i].values[j].k # "unsupported"


(***************************************************************************)
(* Properties of a run of the page                                         *)
(***************************************************************************)
Resolved == parsed.coin # None /\ parsed.analysis # None
Written == csv # NoCsv
\* the frame a column of the table was computed from
FrameOf(column) ==
    IF parsed.analysis = "peer" THEN data[COIN_CONFIG[column.name].symbol]
    ELSE data[COIN_CONFIG[parsed.coin].symbol]
\* the value a table holds for a metric in a column
ValueOf(table, metric, c) == table.columns[c].values[IndexOf(table.Metric, metric) + 1]
ColumnOf(table, name) ==
    table.columns[CHOOSE c \in 1..Len(table.columns) : table.columns[c].name = name]

\* the display names of each profile, in declaration order
TechnicalNames ==
    <<"SMA 50-day", "EMA 20-day", "RSI", "MACD Histogram", "Bollinger Bands Width",
      "ATR", "OBV", "VWAP", "Price ROC", "Stochastic %K", "Williams %R", "Momentum",
      "Volume Oscillator", "Chande Momentum Oscillator", "Price Channel Breakout">>
FundamentalNames ==
    <<"NVT Ratio", "Price/Volume Ratio", "Market Cap Growth Rate", "Volume CAGR",
      "Liquidity Ratio", "Mayer Multiple", "Price Momentum", "Volume Momentum",
      "Volatility-Adjusted Market Cap", "Turnover Ratio", "Price Stability Ratio",
      "Volume-to-Price Ratio", "Discounted Expected Utility Value",
      "Price to Volatility Cost", "Regulatory Discount">>
QuantitativeNames ==
    <<"NVT Ratio", "Price/Volume Ratio", "Sharpe Ratio", "Current Utility Value",
      "Discounted Expected Utility Value", "Volume CAGR", "Volume Composition (Buy)",
      "Volume Composition (Sell)", "Volatility Reduction", "Price Momentum",
      "Risk-Adjusted Volume Discount", "Trading Volume", "Volume Volatility",
      "Price Stability Ratio", "Volume-to-Price Ratio", "Price Correlation",
      "Mayer Multiple", "Price DCF Intrinsic Value", "Price DCF Valuation Ratio",
      "Price to Volatility Cost", "Regulatory Discount", "Price/Volume Ratio (Alt)">>
PeerNames ==
    <<"NVT Ratio", "Sharpe Ratio", "Price/Volume Ratio", "Mayer Multiple",
      "Speculative Signal", "Price Stability Ratio", "RSI", "MACD Histogram">>
ProfileNames(analysis) ==
    CASE analysis = "technical" -> TechnicalNames
      [] analysis = "fundamental" -> FundamentalNames
      [] analysis = "quantitative" -> QuantitativeNames
      [] analysis = "peer" -> PeerNames
ProfileSize(analysis) ==
    CASE analysis = "technical" -> 15
      [] analysis = "fundamental" -> 15
      [] analysis = "quantitative" -> 22
      [] analysis = "peer" -> 8

\* the indicator a display name stands for, given the frame and the supply
\* the run passes to calculate_nvt_ratio
IndicatorNamed(name, df, supply) ==
    CASE name = "NVT Ratio" -> peer_calculate_nvt_ratio(df, supply)
      [] name = "Sharpe Ratio" -> peer_calculate_sharpe_ratio(df)
      [] name = "Price/Volume Ratio" -> peer_calculate_price_volume_ratio(df)
      [] name = "Mayer Multiple" -> peer_calculate_mayer_multiple(df)
      [] name = "Speculative Signal" ->
             peer_calculate_speculative_signal(peer_calculate_nvt_ratio(df, supply),
                                               peer_calculate_mayer_multiple(df))
      [] name = "Price Stability Ratio" -> peer_calculate_price_stability_ratio(df)
      [] name = "RSI" -> peer_calculate_rsi(df, 14)
      [] name = "MACD Histogram" -> peer_calculate_macd(df)
      [] name = "Market Cap Growth Rate" -> fundamental_calculate_market_cap_growth(df)
      [] name = "Volume CAGR" -> fundamental_calculate_volume_cagr(df)
      [] name = "Liquidity Ratio" -> fundamental_calculate_liquidity_ratio(df)
      [] name = "Price Momentum" -> fundamental_calculate_price_momentum(df)
      [] name = "Volume Momentum" -> fundamental_calculate_volume_momentum(df)
      [] name = "Volatility-Adjusted Market Cap" ->
             fundamental_calculate_volatility_adjusted_market_cap(df)
      [] name = "Turnover Ratio" -> fundamental_calculate_turnover_ratio(df)
      [] name = "Volume-to-Price Ratio" -> fundamental_calculate_volume_to_price_ratio(df)
      [] name = "Discounted Expected Utility Value" -> fundamental_calculate_deuv(df)
      [] name = "Price to Volatility Cost" ->
             fundamental_calculate_price_to_volatility_cost(df)
      [] name = "Regulatory Discount" -> fundamental_calculate_regulatory_discount(df)
      [] name = "Current Utility Value" -> quantitative_calculate_cuv(df)
      [] name = "Volume Composition (Buy)" ->
             quantitative_calculate_volume_composition(df).buy_volume
      [] name = "Volume Composition (Sell)" ->
             quantitative_calculate_volume_composition(df).sell_volume
      [] name = "Volatility Reduction" -> quantitative_calculate_volatility_reduction(df)
      [] name = "Risk-Adjusted Volume Discount" ->
             quantitative_calculate_risk_adjusted_volume_discount(df)
      [] name = "Trading Volume" -> quantitative_calculate_trading_volume(df)
      [] name = "Volume Volatility" -> quantitative_calculate_volume_volatility(df)
      [] name = "Price Correlation" -> quantitative_calculate_price_correlation(df)
      [] name = "Price DCF Intrinsic Value" ->
             quantitative_calculate_price_dcf(df).intrinsic_value
      [] name = "Price DCF Valuation Ratio" ->
             quantitative_calculate_price_dcf(df).valuation_ratio
      [] name = "Price/Volume Ratio (Alt)" ->
             quantitative_calculate_price_volume_ratio_alt(df)
      [] name = "SMA 50-day" -> technical_calculate_sma_50(df)
      [] name = "EMA 20-day" -> technical_calculate_ema_20(df)
      [] name = "Bollinger Bands Width" -> technical_calculate_bollinger_width(df)
      [] name = "ATR" -> technical_calculate_atr(df, 14)
      [] name = "OBV" -> technical_calculate_obv(df)
      [] name = "VWAP" -> technical_calculate_vwap(df)
      [] name = "Price ROC" -> technical_calculate_roc(df, 14)
      [] name = "Stochastic %K" -> technical_calculate_stochastic_k(df, 14)
      [] name = "Williams %R" -> technical_calculate_williams_r(df, 14)
      [] name = "Momentum" -> technical_calculate_momentum(df, 10)
      [] name = "Volume Oscillator" -> technical_calculate_volume_oscillator(df)
      [] name = "Chande Momentum Oscillator" -> technical_calculate_cmo(df, 14)
      [] name = "Price Channel Breakout" -> technical_calculate_channel_breakout(df)

\* the supply the run passes to calculate_nvt_ratio for a column
SupplyPassed(column) ==
    IF parsed.analysis = "peer"
    THEN peer_supply(parsed.coin, COIN_CONFIG[column.name].symbol)
    ELSE COIN_CONFIG[parsed.coin].supply

\* C1 as stated: once the fetch has succeeded the report is assembled whatever
\* an indicator does on the frame, and every slot whose indicator does not
\* fail holds that indicator's value
C1_Original ==
    /\ (pc = "done" /\ Resolved /\ ~failed) => Written
    /\ Written =>
           \A c \in 1..Len(csv.columns) : \A i \in 1..Len(csv.Metric) :
               LET v == IndicatorNamed(csv.Metric[i],
                                       FrameOf(csv.columns[c]),
                                       SupplyPassed(csv.columns[c]))
               IN  ~IsRaise(v) => csv.columns[c].values[i] = v

\* C2 as stated: in the peer table the NVT ratio of every asset is computed
\* with that asset's own configured supply
C2_Original ==
    (Written /\ parsed.analysis = "peer") =>
        \A c \in 1..Len(csv.columns) :
            ValueOf(csv, "NVT Ratio", c) =
                peer_calculate_nvt_ratio(FrameOf(csv.columns[c]),
                                         COIN_CONFIG[csv.columns[c].name].supply)

\* C3 as stated: for the same fetched frames the eight values reported for an
\* asset are the same whichever coin the query names
C3_Original ==
    (Written /\ parsed.analysis = "peer") =>
        \A q \in Coins : \A asset \in Coins :
            ColumnOf(run_peer_analysis(q, data).csv, asset).values
                = ColumnOf(csv, asset).values

\* C6: when a fetch of the run has failed the run is over with no table
\* written or shown, no frame left to compute on, exactly one error reported
\* and no LLM call made
C6_FetchFailureAllOrNothing ==
    failed =>
        /\ pc = "done"
        /\ csv = NoCsv /\ ~shown
        /\ data = NoData
        /\ errors = 1
        /\ llmCalls = 0

\* a peer run whose fetch failed after some of the peers had answered
C6_Witness ==
    /\ failed
    /\ parsed.analysis = "peer"
    /\ fetched >= 2
    /\ pc = "done"

\* C7: a written report has the fixed names of its profile in their order
\* (15, 15, 22 or 8 of them) and every column holds, at each position, the
\* value of the indicator named at that position
C7_ReportIsParallelSequences ==
    Written =>
        /\ csv.Metric = ProfileNames(parsed.analysis)
        /\ Len(csv.Metric) = ProfileSize(parsed.analysis)
        /\ \A c \in 1..Len(csv.columns) :
               /\ Len(csv.columns[c].values) = Len(csv.Metric)
               /\ \A i \in 1..Len(csv.Metric) :
                      csv.columns[c].values[i] =
                          IndicatorNamed(csv.Metric[i],
                                         FrameOf(csv.columns[c]),
                                         SupplyPassed(csv.columns[c]))

\* a technical report of 15 rows with a defined RSI
C7_Witness ==
    /\ Written
    /\ parsed.analysis = "technical"
    /\ Len(csv.columns[1].values) = 15
    /\ IsNum(ValueOf(csv, "RSI", 1))
    /\ ValueOf(csv, "Price Channel Breakout", 1) = Num(0)

SupplyDependentNames ==
    {"Liquidity Ratio", "Turnover Ratio", "Volatility-Adjusted Market Cap",
     "Current Utility Value", "Discounted Expected Utility Value"}

\* C8 as stated: a coin with another configured supply gets, on the same
\* frame, another value for every supply-dependent metric of the fundamental
\* and the quantitative report (where the value is a number other than 0)
C8_Original ==
    (Written /\ parsed.analysis \in {"fundamental", "quantitative"}) =>
        \A x \in Coins : \A i \in 1..Len(csv.Metric) :
            (/\ COIN_CONFIG[x].supply # COIN_CONFIG[parsed.coin].supply
             /\ csv.Metric[i] \in SupplyDependentNames
             /\ IsNum(csv.columns[1].values[i])
             /\ Sign(csv.columns[1].values[i]) # 0) =>
                LET other == [s \in {COIN_CONFIG[x].symbol} |->
                                 data[COIN_CONFIG[parsed.coin].symbol]]
                IN  run_analysis(parsed.analysis, x, other).csv.columns[1].values[i]
                        # csv.columns[1].values[i]

(***************************************************************************)
(* Indicators called on their own.  A call records the function, its extra *)
(* argument (a supply or a period, 0 when there is none) and the result.   *)
(***************************************************************************)
\* the call stores its converted high and low columns back into the frame
Called_storing_columns(name, a, result) ==
    /\ fn = "none"
    /\ fn' = name
    /\ arg' = a
    /\ out' = result
    /\ series' = [series EXCEPT !.hl = "float"]
    /\ UNCHANGED appVars

Called(name, a, result) ==
    /\ fn = "none"
    /\ fn' = name
    /\ arg' = a
    /\ out' = result
    /\ UNCHANGED <<series, appVars>>

CallNvtRatio ==
    \E c \in Coins :
        Called("peer.calculate_nvt_ratio", COIN_CONFIG[c].supply,
               peer_calculate_nvt_ratio(series, COIN_CONFIG[c].supply))
CallSharpeRatio ==
    Called("peer.calculate_sharpe_ratio", 0, peer_calculate_sharpe_ratio(series))
CallMayerMultiple ==
    Called("peer.calculate_mayer_multiple", 0, peer_calculate_mayer_multiple(series))

\* flat series: every bar closes at c and trades volume v
FlatBars == 250
MaxFlatClose == 5
MaxFlatVolume == 5
FlatFrames ==
    {Shape(FlatBars, c, c, v, "str") : c \in 1..MaxFlatClose, v \in 0..MaxFlatVolume}

InitFlat ==
    /\ PageIdle
    /\ series \in FlatFrames
    /\ fn = "none" /\ arg = 0 /\ out = None
NextFlat ==
    \/ CallNvtRatio
    \/ CallSharpeRatio
    \/ CallMayerMultiple
SpecFlat == InitFlat /\ [][NextFlat]_vars

IsFlat(df) ==
    /\ Len(df.bars) = FlatBars
    /\ \A i \in 1..Len(df.bars) :
           /\ df.bars[i].close = df.bars[1].close
           /\ df.bars[i].volume = df.bars[1].volume

\* C9 as amended: on a flat series of 250 bars closing at c > 0, the Sharpe
\* ratio is INF (the excess returns have no spread), the Mayer multiple is
\* exactly 1 (the close over its own average) and the NVT ratio is supply / v
\* when v > 0, INF only when v = 0
C9_FlatSeriesValues ==
    (fn # "none" /\ IsFlat(series) /\ series.bars[1].close > 0) =>
        /\ fn = "peer.calculate_sharpe_ratio" => out = Inf
        /\ fn = "peer.calculate_mayer_multiple" => out = Num(1)
        /\ fn = "peer.calculate_nvt_ratio" =>
               out = IF series.bars[1].volume = 0 THEN Inf
                     ELSE Q(arg, series.bars[1].volume)

C9_Witness ==
    /\ IsFlat(series)
    /\ series.bars[1].close > 1 /\ series.bars[1].volume > 1
    /\ fn = "peer.calculate_nvt_ratio"
    /\ IsNum(out)

\* C9 as stated: on a flat 250-bar series all three return INF
C9_Original ==
    (fn \in {"peer.calculate_nvt_ratio", "peer.calculate_sharpe_ratio",
             "peer.calculate_mayer_multiple"} /\ IsFlat(series)) =>
        out = Inf


CallTechnicalRsi ==
    Called("technical.calculate_rsi", 14, technical_calculate_rsi(series, 14))
CallPeerRsi ==
    Called("peer.calculate_rsi", 14, peer_calculate_rsi(series, 14))

\* stepped series: the close is l1 up to bar p1, l2 up to bar p2, l3 after
MinRsiBars == 15
MaxRsiBars == 17
MaxLevel == 3
Steps(n, p1, p2, l1, l2, l3, hl) ==
    [hl |-> hl,
     bars |-> [i \in 1..n |-> Bar(IF i <= p1 THEN l1 ELSE IF i <= p2 THEN l2 ELSE l3, 1)]]
SteppedFrames(lo, hi) ==
    {Steps(n, p1, p1 + d, l1, l2, l3, "float") :
        n \in lo..hi, p1 \in 0..hi, d \in 0..hi,
        l1 \in 1..MaxLevel, l2 \in 1..MaxLevel, l3 \in 1..MaxLevel}

InitRsi ==
    /\ PageIdle
    /\ series \in SteppedFrames(MinRsiBars, MaxRsiBars)
    /\ fn = "none" /\ arg = 0 /\ out = None
NextRsi ==
    \/ CallTechnicalRsi
    \/ CallPeerRsi
SpecRsi == InitRsi /\ [][NextRsi]_vars

\* the last k closes of the frame are all equal
TailFlat(df, k) ==
    \A i \in 1..Len(df.bars) :
        i > Len(df.bars) - k => df.bars[i].close = df.bars[Len(df.bars)].close
AllFlat(df) == TailFlat(df, Len(df.bars))
InRange(v, lo, hi) == IsNum(v) /\ Le(Num(lo), v) /\ Le(v, Num(hi))

CallSma50 ==
    Called("technical.calculate_sma_50", 0, technical_calculate_sma_50(series))
CallBollingerWidth ==
    Called("technical.calculate_bollinger_width", 0,
           technical_calculate_bollinger_width(series))
CallAtr ==
    Called("technical.calculate_atr", 14, technical_calculate_atr(series, 14))
CallVolumeOscillator ==
    Called("technical.calculate_volume_oscillator", 0,
           technical_calculate_volume_oscillator(series))
CallCmo ==
    Called("technical.calculate_cmo", 14, technical_calculate_cmo(series, 14))
CallStochasticK ==
    Called("technical.calculate_stochastic_k", 14,
           technical_calculate_stochastic_k(series, 14))
CallWilliamsR ==
    Called("technical.calculate_williams_r", 14,
           technical_calculate_williams_r(series, 14))
CallChannelBreakout ==
    Called("technical.calculate_channel_breakout", 0,
           technical_calculate_channel_breakout(series))
CallFundamentalMayerMultiple ==
    Called("fundamental.calculate_mayer_multiple", 0,
           fundamental_calculate_mayer_multiple(series))
CallPriceVolumeRatio ==
    Called("fundamental.calculate_price_volume_ratio", 0,
           fundamental_calculate_price_volume_ratio(series))
CallMarketCapGrowth ==
    Called("fundamental.calculate_market_cap_growth", 0,
           fundamental_calculate_market_cap_growth(series))
CallVolumeCagr ==
    Called("fundamental.calculate_volume_cagr", 0,
           fundamental_calculate_volume_cagr(series))
CallLiquidityRatio ==
    Called("fundamental.calculate_liquidity_ratio", 0,
           fundamental_calculate_liquidity_ratio(series))
CallDeuv ==
    Called("fundamental.calculate_deuv", 0, fundamental_calculate_deuv(series))
CallVolumeComposition ==
    Called("quantitative.calculate_volume_composition", 0,
           quantitative_calculate_volume_composition(series))
CallVolatilityReduction ==
    Called("quantitative.calculate_volatility_reduction", 0,
           quantitative_calculate_volatility_reduction(series))
CallVolumeVolatility ==
    Called("quantitative.calculate_volume_volatility", 0,
           quantitative_calculate_volume_volatility(series))
CallRiskAdjustedVolumeDiscount ==
    Called("quantitative.calculate_risk_adjusted_volume_discount", 0,
           quantitative_calculate_risk_adjusted_volume_discount(series))

\* short frames of every shape, long frames flat; the price levels are
\* fixed, the exact fractions of the volatility indicators stay in range
ShortLengths == {1, 2, 5, 13, 14, 19, 20}
LongLengths == {49, 50, 199, 200}
CatalogCloses == {0, 1, 2}
CatalogVolumes == {0, 2}
CatalogFrames ==
    {Shape(n, a, b, v, "float") :
        n \in ShortLengths, a \in CatalogCloses, b \in CatalogCloses,
        v \in CatalogVolumes}
    \cup {Shape(n, a, a, v, "float") :
             n \in LongLengths, a \in CatalogCloses, v \in CatalogVolumes}

InitCatalog ==
    /\ PageIdle
    /\ series \in CatalogFrames
    /\ fn = "none" /\ arg = 0 /\ out = None
NextCatalog ==
    \/ CallSma50
    \/ CallBollingerWidth
    \/ CallAtr
    \/ CallVolumeOscillator
    \/ CallTechnicalRsi
    \/ CallPeerRsi
    \/ CallCmo
    \/ CallStochasticK
    \/ CallWilliamsR
    \/ CallChannelBreakout
    \/ CallMayerMultiple
    \/ CallFundamentalMayerMultiple
    \/ CallSharpeRatio
    \/ CallPriceVolumeRatio
    \/ CallMarketCapGrowth
    \/ CallVolumeCagr
    \/ CallLiquidityRatio
    \/ CallDeuv
    \/ CallVolumeComposition
    \/ CallVolatilityReduction
    \/ CallVolumeVolatility
    \/ CallRiskAdjustedVolumeDiscount
SpecCatalog == InitCatalog /\ [][NextCatalog]_vars

\* every returned number is inside the modelled number system
CallNumbersClosed ==
    /\ fn \notin {"none", "quantitative.calculate_volume_composition"} =>
           out.k # "unsupported"
    /\ fn = "quantitative.calculate_volume_composition" =>
           out.buy_volume.k # "unsupported" /\ out.sell_volume.k # "unsupported"


\* the denominator of each ratio indicator, as its source computes it
Denominator(name, df) ==
    CASE name = "quantitative.calculate_volume_composition" ->
             SeriesSum(QuoteVolume(df))
      [] name = "quantitative.calculate_volatility_reduction" ->
             LET returns == DropNa(PctChange(ColClose(df)))
             IN  Mul(SeriesStd(SubSeq(returns, 1, Len(returns) \div 2)),
                     Sqrt(Num(365)))
      [] name = "quantitative.calculate_volume_volatility" ->
             SeriesMean(QuoteVolume(df))
      [] name = "quantitative.calculate_risk_adjusted_volume_discount" ->
             SeriesMean(QuoteVolume(df))
      [] name = "fundamental.calculate_price_volume_ratio" ->
             SeriesMean(QuoteVolume(df))
      [] name = "fundamental.calculate_market_cap_growth" ->
             Mul(ILocFirst(ColClose(df)), Num(fundamental_circulating_supply))
      [] name = "fundamental.calculate_volume_cagr" -> ILocFirst(QuoteVolume(df))
      [] name = "fundamental.calculate_liquidity_ratio" ->
             Mul(Last(ColClose(df)), Num(fundamental_circulating_supply))
      [] name \in {"fundamental.calculate_mayer_multiple",
                   "peer.calculate_mayer_multiple"} ->
             RollingMeanAt(ColClose(df), 200, Len(df.bars))
      [] name = "peer.calculate_sharpe_ratio" ->
             SeriesStd(DropNa(PctChange(ColClose(df))))
      [] name = "fundamental.calculate_deuv" -> SeriesMean(QuoteVolume(df))
RatioIndicators ==
    {"quantitative.calculate_volume_composition",
     "quantitative.calculate_volatility_reduction",
     "quantitative.calculate_volume_volatility",
     "quantitative.calculate_risk_adjusted_volume_discount",
     "fundamental.calculate_price_volume_ratio",
     "fundamental.calculate_market_cap_growth",
     "fundamental.calculate_volume_cagr",
     "fundamental.calculate_liquidity_ratio",
     "fundamental.calculate_mayer_multiple",
     "peer.calculate_mayer_multiple",
     "peer.calculate_sharpe_ratio",
     "fundamental.calculate_deuv"}

\* C4 as stated: a ratio indicator whose denominator is zero returns the
\* positive-infinity sentinel (both parts of the volume composition do)
C4_Original ==
    (fn \in RatioIndicators /\ Denominator(fn, series) = Num(0)) =>
        IF fn = "quantitative.calculate_volume_composition"
        THEN out.buy_volume = Inf /\ out.sell_volume = Inf
        ELSE out = Inf

\* the window of each windowed indicator
WindowOf(name) ==
    CASE name = "technical.calculate_sma_50" -> 50
      [] name = "technical.calculate_bollinger_width" -> 20
      [] name = "technical.calculate_atr" -> 14
      [] name = "technical.calculate_volume_oscillator" -> 20
      [] name = "technical.calculate_rsi" -> 14
      [] name = "peer.calculate_rsi" -> 14
      [] name = "technical.calculate_cmo" -> 14
      [] name = "technical.calculate_stochastic_k" -> 14
      [] name = "technical.calculate_williams_r" -> 14
      [] name = "technical.calculate_channel_breakout" -> 20
      [] name = "peer.calculate_mayer_multiple" -> 200
      [] name = "fundamental.calculate_mayer_multiple" -> 200
WindowedIndicators ==
    {"technical.calculate_sma_50", "technical.calculate_bollinger_width",
     "technical.calculate_atr", "technical.calculate_volume_oscillator",
     "technical.calculate_rsi", "peer.calculate_rsi", "technical.calculate_cmo",
     "technical.calculate_stochastic_k", "technical.calculate_williams_r",
     "technical.calculate_channel_breakout", "peer.calculate_mayer_multiple",
     "fundamental.calculate_mayer_multiple"}

\* C5 as stated: a windowed indicator called on fewer bars than its window
\* returns UNDEFINED (NaN), not a number and not an error
C5_Original ==
    (fn \in WindowedIndicators /\ Len(series.bars) < WindowOf(fn)) => IsNaN(out)


(***************************************************************************)
(* Stochastic %K and Williams %R on candles: two runs of bars, each with a *)
(* close level and a spread above and below it (low <= close <= high).     *)
(***************************************************************************)
MaxSpread == 1
CandleLevels == {2, 3, 4}
CandleLengths == {15, 16}
\* the bar after which the second run starts: early, or at the last bar
CandleBreaks == {0, 1, 2, 3, 14, 15}
Candle(c, up, dn, v) ==
    [high |-> c + up, low |-> c - dn, close |-> c, volume |-> v,
     tbq |-> IF v = 0 THEN 0 ELSE 1]
Candles(n, p, l1, l2, u1, d1, u2, d2) ==
    [hl |-> "float",
     bars |-> [i \in 1..n |-> IF i <= p THEN Candle(l1, u1, d1, 1)
                              ELSE Candle(l2, u2, d2, 1)]]
CandleFrames ==
    {Candles(n, p, l1, l2, u1, d1, u2, d2) :
        n \in CandleLengths, p \in CandleBreaks,
        l1 \in CandleLevels, l2 \in CandleLevels,
        u1 \in 0..MaxSpread, d1 \in 0..MaxSpread,
        u2 \in 0..MaxSpread, d2 \in 0..MaxSpread}

InitOscillator ==
    /\ PageIdle
    /\ series \in CandleFrames
    /\ fn = "none" /\ arg = 0 /\ out = None
NextOscillator ==
    \/ CallStochasticK
    \/ CallWilliamsR
SpecOscillator == InitOscillator /\ [][NextOscillator]_vars

WellFormed(df) ==
    \A i \in 1..Len(df.bars) :
        df.bars[i].low <= df.bars[i].close /\ df.bars[i].close <= df.bars[i].high
\* the highest high and the lowest low of the last k bars
TailHigh(df, k) ==
    CHOOSE h \in {df.bars[i].high : i \in (Len(df.bars) - k + 1)..Len(df.bars)} :
        \A i \in (Len(df.bars) - k + 1)..Len(df.bars) : df.bars[i].high <= h
TailLow(df, k) ==
    CHOOSE l \in {df.bars[i].low : i \in (Len(df.bars) - k + 1)..Len(df.bars)} :
        \A i \in (Len(df.bars) - k + 1)..Len(df.bars) : l <= df.bars[i].low

\* C11 as amended: on at least 15 well-formed bars, calculate_stochastic_k
\* (period 14) returns a number in [0,100] and calculate_williams_r one in
\* [-100,0] exactly when the highest high of the last 14 bars is above their
\* lowest low; when the two are equal (14 bars without any range) both
\* return NaN, however the closes before them vary
C11_OscillatorRangeOnMovingWindow ==
    (fn \in {"technical.calculate_stochastic_k", "technical.calculate_williams_r"}
     /\ Len(series.bars) >= 15 /\ WellFormed(series)) =>
        IF TailHigh(series, 14) = TailLow(series, 14) THEN IsNaN(out)
        ELSE IF fn = "technical.calculate_stochastic_k" THEN InRange(out, 0, 100)
        ELSE InRange(out, -100, 0)

\* the last close strictly inside the range of the last 14 bars, which an
\* earlier bar widened: a %K strictly between 0 and 100
C11_Witness ==
    /\ fn = "technical.calculate_stochastic_k"
    /\ Len(series.bars) = 16
    /\ series.bars[1].close # series.bars[16].close
    /\ TailLow(series, 14) < series.bars[16].close
    /\ series.bars[16].close < TailHigh(series, 14)
    /\ Lt(Num(0), out) /\ Lt(out, Num(100))

\* C11 as stated: at least 15 well-formed bars and closes not all equal give
\* a %K in [0,100] and a %R in [-100,0]
C11_Original ==
    (fn \in {"technical.calculate_stochastic_k", "technical.calculate_williams_r"}
     /\ Len(series.bars) >= 15 /\ WellFormed(series) /\ ~AllFlat(series)) =>
        IF fn = "technical.calculate_stochastic_k" THEN InRange(out, 0, 100)
        ELSE InRange(out, -100, 0)



(***************************************************************************)
(* Warm-up of the 50-bar and 200-bar means: series just below, at and      *)
(* above the two windows.                                                  *)
(***************************************************************************)
WarmupLengths == {1, 2, 49, 50, 51, 199, 200, 201}
WarmupCloses == {0, 1, 2}
WarmupFrames ==
    {Shape(n, a, b, v, "float") :
        n \in WarmupLengths, a \in WarmupCloses, b \in WarmupCloses, v \in {0, 1}}

InitWarmup ==
    /\ PageIdle
    /\ series \in WarmupFrames
    /\ fn = "none" /\ arg = 0 /\ out = None
NextWarmup ==
    \/ CallSma50
    \/ CallFundamentalMayerMultiple
    \/ CallMayerMultiple
SpecWarmup == InitWarmup /\ [][NextWarmup]_vars

\* the closes of the bars lo..hi added up
RECURSIVE CloseSum(_, _, _)
CloseSum(df, lo, hi) ==
    IF lo > hi THEN 0
    ELSE IF lo = hi THEN df.bars[lo].close
    ELSE CloseSum(df, lo, (lo + hi) \div 2) + CloseSum(df, (lo + hi) \div 2 + 1, hi)
\* the closes of the last k bars added up
CloseTotal(df, k) == CloseSum(df, Len(df.bars) - k + 1, Len(df.bars))

MayerNames == {"fundamental.calculate_mayer_multiple", "peer.calculate_mayer_multiple"}

\* C12: on a series of 1 to 49 bars calculate_sma_50 and
\* calculate_mayer_multiple return NaN and do not raise; calculate_mayer_multiple
\* returns NaN on every series of fewer than 200 bars, and from 200 bars on it
\* returns INF exactly when the mean of the last 200 closes is 0
C12_WarmupUndefinedAndMayerInf ==
    /\ (fn = "technical.calculate_sma_50" /\ Len(series.bars) \in 1..49) => IsNaN(out)
    /\ (fn \in MayerNames /\ Len(series.bars) \in 1..199) => IsNaN(out)
    /\ (fn \in MayerNames /\ Len(series.bars) >= 200) =>
          /\ ~IsRaise(out) /\ ~IsNaN(out)
          /\ IsInf(out) <=> (CloseTotal(series, 200) = 0)

C12_Witness ==
    /\ fn = "fundamental.calculate_mayer_multiple"
    /\ Len(series.bars) = 201
    /\ series.bars[1].close = 0 /\ series.bars[201].close = 0
    /\ IsInf(out)



(***************************************************************************)
(* Constant closes under free highs, lows and volumes: every bar closes at *)
(* c; the bars up to the break and the bars after it have their own spread *)
(* and volume.                                                             *)
(***************************************************************************)
ConstLengths == {50, 51}
ConstBreaks == {1, 25, 50}
ConstCloses == {1, 2}
ConstVolumes == {0, 2}
ConstCandles(n, p, c, u1, d1, v1, u2, d2, v2) ==
    [hl |-> "float",
     bars |-> [i \in 1..n |-> IF i <= p THEN Candle(c, u1, d1, v1)
                              ELSE Candle(c, u2, d2, v2)]]
ConstFrames ==
    {ConstCandles(n, p, c, u1, d1, v1, u2, d2, v2) :
        n \in ConstLengths, p \in ConstBreaks, c \in ConstCloses,
        u1 \in 0..MaxSpread, d1 \in 0..MaxSpread, v1 \in ConstVolumes,
        u2 \in 0..MaxSpread, d2 \in 0..MaxSpread, v2 \in ConstVolumes}

CallVwap ==
    Called("technical.calculate_vwap", 0, technical_calculate_vwap(series))

InitConst ==
    /\ PageIdle
    /\ series \in ConstFrames
    /\ fn = "none" /\ arg = 0 /\ out = None
NextConst ==
    \/ CallVwap
    \/ CallSma50
SpecConst == InitConst /\ [][NextConst]_vars

\* the volumes of the bars lo..hi added up
RECURSIVE VolumeSum(_, _, _)
VolumeSum(df, lo, hi) ==
    IF lo > hi THEN 0
    ELSE IF lo = hi THEN df.bars[lo].volume
    ELSE VolumeSum(df, lo, (lo + hi) \div 2) + VolumeSum(df, (lo + hi) \div 2 + 1, hi)
TotalVolume(df) == VolumeSum(df, 1, Len(df.bars))

\* volume * (high + low - 2 * close) of the bars lo..hi added up
RECURSIVE SkewSum(_, _, _)
SkewSum(df, lo, hi) ==
    IF lo > hi THEN 0
    ELSE IF lo = hi
    THEN df.bars[lo].volume * (df.bars[lo].high + df.bars[lo].low - 2 * df.bars[lo].close)
    ELSE SkewSum(df, lo, (lo + hi) \div 2) + SkewSum(df, (lo + hi) \div 2 + 1, hi)
TotalSkew(df) == SkewSum(df, 1, Len(df.bars))

ConstantCloses(df) ==
    /\ Len(df.bars) >= 50
    /\ AllFlat(df)
    /\ TotalVolume(df) > 0
    /\ df.hl = "float"

\* C13 as amended: on a series of at least 50 bars whose closes all equal c,
\* with positive total volume and numeric highs and lows, calculate_sma_50
\* returns c, and calculate_vwap returns c plus the volume-weighted mean of
\* (high + low - 2c) / 3: it is c exactly when the volume-weighted sum of
\* high + low - 2c is 0, and differs from c otherwise
C13_ConstantClosesSmaAndVwap ==
    /\ (fn = "technical.calculate_sma_50" /\ ConstantCloses(series)) =>
          Eq(out, Num(series.bars[1].close))
    /\ (fn = "technical.calculate_vwap" /\ ConstantCloses(series)) =>
          /\ Eq(out, Q(3 * series.bars[1].close * TotalVolume(series) + TotalSkew(series),
                       3 * TotalVolume(series)))
          /\ Eq(out, Num(series.bars[1].close)) <=> (TotalSkew(series) = 0)

C13_Witness ==
    /\ fn = "technical.calculate_vwap"
    /\ ConstantCloses(series)
    /\ WellFormed(series)
    /\ TotalSkew(series) > 0
    /\ Gt(out, Num(series.bars[1].close))

\* C13 as stated: with all closes equal to c, positive total volume and at
\* least 50 bars, calculate_vwap and calculate_sma_50 both return c, whatever
\* the highs and lows are
C13_Original ==
    (fn \in {"technical.calculate_vwap", "technical.calculate_sma_50"}
     /\ ConstantCloses(series)) =>
        Eq(out, Num(series.bars[1].close))



(***************************************************************************)
(* Exponential smoothing: constant series of any length, and short series  *)
(* with every close free.                                                  *)
(***************************************************************************)
EmaFlatLengths == {1, 2, 12, 20, 26, 30}
EmaCloses == 0..3
EmaFreeLengths == 1..3
Closes(cs) == [hl |-> "float", bars |-> [i \in 1..Len(cs) |-> Bar(cs[i], 1)]]
EmaFrames ==
    {Shape(n, c, c, 1, "float") : n \in EmaFlatLengths, c \in EmaCloses}
    \cup UNION {{Closes(cs) : cs \in [1..n -> EmaCloses]} : n \in EmaFreeLengths}

CallEma20 ==
    Called("technical.calculate_ema_20", 20, technical_calculate_ema_20(series))
CallMacd ==
    Called("technical.calculate_macd", 0, technical_calculate_macd(series))

InitEma ==
    /\ PageIdle
    /\ series \in EmaFrames
    /\ fn = "none" /\ arg = 0 /\ out = None
NextEma ==
    \/ CallEma20
    \/ CallMacd
SpecEma == InitEma /\ [][NextEma]_vars

\* the recurrence as written: ema_0 = x_0, ema_t = a * x_t + (1 - a) * ema_(t-1)
RECURSIVE EmaRecurrence(_, _, _)
EmaRecurrence(x, alpha, t) ==
    IF t = 1 THEN x[1]
    ELSE Add(Mul(alpha, x[t]), Mul(Sub(Num(1), alpha), EmaRecurrence(x, alpha, t - 1)))

CloseSpans == {12, 20, 26}

\* C14: ewm(span, adjust=False).mean() of the closes follows ema_0 = x_0,
\* ema_t = a * x_t + (1 - a) * ema_(t-1) with a = 2 / (span + 1), is a number
\* at every index of every series of at least one bar, and on a series whose
\* closes all equal c it is c at every index; calculate_ema_20 of such a
\* series returns c and calculate_macd returns 0
C14_EmaRecurrenceAndConstantSeries ==
    (fn \in {"technical.calculate_ema_20", "technical.calculate_macd"}
     /\ Len(series.bars) >= 1) =>
        /\ \A span \in CloseSpans :
              /\ Len(Ewm(ColClose(series), span)) = Len(series.bars)
              /\ \A t \in 1..Len(series.bars) :
                    /\ IsNum(Ewm(ColClose(series), span)[t])
                    /\ Eq(Ewm(ColClose(series), span)[t],
                          EmaRecurrence(ColClose(series), Q(2, span + 1), t))
                    /\ AllFlat(series) =>
                          Eq(Ewm(ColClose(series), span)[t], Num(series.bars[1].close))
        /\ fn = "technical.calculate_ema_20" =>
              Eq(out, EmaRecurrence(ColClose(series), Q(2, 21), Len(series.bars)))
        /\ (fn = "technical.calculate_ema_20" /\ AllFlat(series)) =>
              Eq(out, Num(series.bars[1].close))
        /\ (fn = "technical.calculate_macd" /\ AllFlat(series)) => Eq(out, Num(0))

C14_Witness ==
    /\ fn = "technical.calculate_macd"
    /\ Len(series.bars) = 30
    /\ AllFlat(series)
    /\ series.bars[1].close = 3
    /\ Eq(out, Num(0))
    /\ Eq(technical_calculate_ema_20(series), Num(3))



(***************************************************************************)
(* Rising closes: the ramp 10, 11, ... of 14 to 16 bars, and stepped       *)
(* series of 14 and 15 bars.                                               *)
(***************************************************************************)
RampLengths == {14, 15, 16}
\* n bars closing at 10, 11, 12, ...
Ramp(n) == [hl |-> "float", bars |-> [i \in 1..n |-> Bar(9 + i, 1)]]
RiseFrames ==
    {Ramp(n) : n \in RampLengths} \cup SteppedFrames(14, 15)

InitRise ==
    /\ PageIdle
    /\ series \in RiseFrames
    /\ fn = "none" /\ arg = 0 /\ out = None
SpecRise == InitRise /\ [][NextRsi]_vars

\* the bars whose change from the bar before lies in the last k differences
TailChanges(df, k) ==
    {i \in 2..Len(df.bars) : i > Len(df.bars) - k}
NoLossInTail(df, k) ==
    \A i \in TailChanges(df, k) : df.bars[i].close >= df.bars[i - 1].close
SomeGainInTail(df, k) ==
    \E i \in TailChanges(df, k) : df.bars[i].close > df.bars[i - 1].close

\* C15: on the 14 bars closing at 10, 11, ..., 23 calculate_rsi (period 14)
\* returns 100, not NaN; and on every series of at least 14 bars whose last
\* 14 changes of the close hold at least one gain and no loss it returns 100
C15_RsiIsHundredWithoutLosses ==
    (fn \in {"technical.calculate_rsi", "peer.calculate_rsi"}
     /\ Len(series.bars) >= 14
     /\ NoLossInTail(series, 14) /\ SomeGainInTail(series, 14)) =>
        Eq(out, Num(100))

C15_Witness ==
    /\ fn = "technical.calculate_rsi"
    /\ series = Ramp(14)
    /\ series.bars[1].close = 10 /\ series.bars[14].close = 23
    /\ Eq(out, Num(100))



(***************************************************************************)
(* Rate of change and momentum: series around the two default periods,     *)
(* with an early step and a last bar of its own level.                     *)
(***************************************************************************)
TrendLengths == 9..16
TrendBreaks == 0..3
TrendFrames ==
    {Steps(n, p, n - 1, l1, l2, l3, "float") :
        n \in TrendLengths, p \in TrendBreaks,
        l1 \in 1..MaxLevel, l2 \in 1..MaxLevel, l3 \in 1..MaxLevel}

CallRoc ==
    Called("technical.calculate_roc", 14, technical_calculate_roc(series, 14))
CallMomentum ==
    Called("technical.calculate_momentum", 10, technical_calculate_momentum(series, 10))

InitTrend ==
    /\ PageIdle
    /\ series \in TrendFrames
    /\ fn = "none" /\ arg = 0 /\ out = None
NextTrend ==
    \/ CallRoc
    \/ CallMomentum
SpecTrend == InitTrend /\ [][NextTrend]_vars

\* the close k bars before the last bar
CloseBack(df, k) == df.bars[Len(df.bars) - k].close

\* C16 as stated: with more bars than the period, calculate_roc returns
\* (last close - close period bars before the last) / that close * 100 and
\* calculate_momentum returns last close - close period bars before the last
C16_Original ==
    /\ (fn = "technical.calculate_roc" /\ Len(series.bars) > arg) =>
          Eq(out, Q(100 * (CloseBack(series, 0) - CloseBack(series, arg)),
                    CloseBack(series, arg)))
    /\ (fn = "technical.calculate_momentum" /\ Len(series.bars) > arg) =>
          Eq(out, Num(CloseBack(series, 0) - CloseBack(series, arg)))

\* what the calls return: the reference is the close period - 1 bars before
\* the last bar
C16_ReferenceOneBarLate ==
    /\ (fn = "technical.calculate_roc" /\ Len(series.bars) >= arg) =>
          Eq(out, Q(100 * (CloseBack(series, 0) - CloseBack(series, arg - 1)),
                    CloseBack(series, arg - 1)))
    /\ (fn = "technical.calculate_momentum" /\ Len(series.bars) >= arg) =>
          Eq(out, Num(CloseBack(series, 0) - CloseBack(series, arg - 1)))

\* C17 as stated: calculate_roc and calculate_momentum end in an index error
\* on a series of at most period bars and return a value on a longer one
C17_Original ==
    fn \in {"technical.calculate_roc", "technical.calculate_momentum"} =>
        /\ Len(series.bars) <= arg => out = Raise("IndexError")
        /\ Len(series.bars) > arg => ~IsRaise(out)

\* what the calls do: the index error comes below period bars only
C17_IndexErrorBelowPeriod ==
    fn \in {"technical.calculate_roc", "technical.calculate_momentum"} =>
        /\ Len(series.bars) < arg => out = Raise("IndexError")
        /\ Len(series.bars) >= arg => ~IsRaise(out)



(***************************************************************************)
(* Average true range: bars with free spreads around the 14-bar window.    *)
(***************************************************************************)
AtrLengths == {1, 13, 14, 15, 16}
AtrBreaks == {0, 1, 2, 14}
AtrFrames ==
    {Candles(n, p, l1, l2, u1, d1, u2, d2) :
        n \in AtrLengths, p \in AtrBreaks,
        l1 \in CandleLevels, l2 \in CandleLevels,
        u1 \in 0..MaxSpread, d1 \in 0..MaxSpread,
        u2 \in 0..MaxSpread, d2 \in 0..MaxSpread}

InitAtr ==
    /\ PageIdle
    /\ series \in AtrFrames
    /\ fn = "none" /\ arg = 0 /\ out = None
NextAtr == CallAtr
SpecAtr == InitAtr /\ [][NextAtr]_vars

Distance(a, b) == IF a >= b THEN a - b ELSE b - a
Largest(S) == CHOOSE m \in S : \A x \in S : x <= m
\* max(high - low, |high - previous close|, |low - previous close|) at bar i > 1
RangeWithPrevious(df, i) ==
    Largest({df.bars[i].high - df.bars[i].low,
             Distance(df.bars[i].high, df.bars[i - 1].close),
             Distance(df.bars[i].low, df.bars[i - 1].close)})
\* the first bar has no previous close: high - low is all the row holds
RangeAt(df, i) ==
    IF i = 1 THEN df.bars[1].high - df.bars[1].low ELSE RangeWithPrevious(df, i)
RECURSIVE RangeSum(_, _, _)
RangeSum(df, lo, hi) ==
    IF lo > hi THEN 0 ELSE RangeAt(df, hi) + RangeSum(df, lo, hi - 1)

\* C18 as stated: calculate_atr (period 14) returns NaN on every series of
\* fewer than 15 bars, a series of exactly 14 bars included, and from 15
\* bars on the mean of the last 14 true ranges
C18_Original ==
    (fn = "technical.calculate_atr" /\ series.hl = "float") =>
        /\ Len(series.bars) < 15 => IsNaN(out)
        /\ Len(series.bars) >= 15 =>
              Eq(out, Q(RangeSum(series, Len(series.bars) - 13, Len(series.bars)), 14))

\* what the call returns: NaN below 14 bars; from 14 bars on the mean of the
\* last 14 true ranges, the first bar's true range being its high - low
C18_AtrFromFourteenBars ==
    (fn = "technical.calculate_atr" /\ series.hl = "float") =>
        /\ Len(series.bars) < 14 => IsNaN(out)
        /\ Len(series.bars) >= 14 =>
              Eq(out, Q(RangeSum(series, Len(series.bars) - 13, Len(series.bars)), 14))



(***************************************************************************)
(* On-balance volume: short series with every close and volume free.       *)
(***************************************************************************)
ObvLengths == 1..4
ObvCloses == 1..2
ObvVolumes == 1..2
Traded(cs, vs) == [hl |-> "float", bars |-> [i \in 1..Len(cs) |-> Bar(cs[i], vs[i])]]
ObvFrames ==
    UNION {{Traded(cs, vs) : cs \in [1..n -> ObvCloses], vs \in [1..n -> ObvVolumes]} :
              n \in ObvLengths}

CallObv ==
    Called("technical.calculate_obv", 0, technical_calculate_obv(series))

InitObv ==
    /\ PageIdle
    /\ series \in ObvFrames
    /\ fn = "none" /\ arg = 0 /\ out = None
NextObv == CallObv
SpecObv == InitObv /\ [][NextObv]_vars

\* volume * sign of bar i > 1: +1 when the close rose, -1 otherwise
SignedVolume(df, i) ==
    IF df.bars[i].close > df.bars[i - 1].close THEN df.bars[i].volume
    ELSE 0 - df.bars[i].volume
\* the signed volumes of bars 2..hi added up
RECURSIVE SignedVolumeSum(_, _)
SignedVolumeSum(df, hi) ==
    IF hi < 2 THEN 0 ELSE SignedVolume(df, hi) + SignedVolumeSum(df, hi - 1)

\* C19 as stated: calculate_obv returns the sum of volume * sign over the
\* bars from the second on (+1 when the close rose, -1 otherwise, unchanged
\* included); the first bar contributes nothing
C19_Original ==
    fn = "technical.calculate_obv" =>
        Eq(out, Num(SignedVolumeSum(series, Len(series.bars))))

\* what the call returns: the first bar counts as a bar that did not rise,
\* its volume is subtracted
C19_ObvCountsFirstBarDown ==
    fn = "technical.calculate_obv" =>
        Eq(out, Num(SignedVolumeSum(series, Len(series.bars)) - series.bars[1].volume))



(***************************************************************************)
(* Volatility on very short series: one to three bars, every close free.   *)
(***************************************************************************)
ShortSeriesLengths == 1..3
ShortSeriesCloses == 0..2
ShortSeriesFrames ==
    UNION {{Closes(cs) : cs \in [1..n -> ShortSeriesCloses]} : n \in ShortSeriesLengths}

CallVolatilityAdjustedMarketCap ==
    Called("fundamental.calculate_volatility_adjusted_market_cap", 0,
           fundamental_calculate_volatility_adjusted_market_cap(series))
CallPriceStabilityRatio ==
    Called("fundamental.calculate_price_stability_ratio", 0,
           fundamental_calculate_price_stability_ratio(series))
CallPriceToVolatilityCost ==
    Called("fundamental.calculate_price_to_volatility_cost", 0,
           fundamental_calculate_price_to_volatility_cost(series))

InitVolatility ==
    /\ PageIdle
    /\ series \in ShortSeriesFrames
    /\ fn = "none" /\ arg = 0 /\ out = None
NextVolatility ==
    \/ CallVolatilityAdjustedMarketCap
    \/ CallPriceStabilityRatio
    \/ CallPriceToVolatilityCost
SpecVolatility == InitVolatility /\ [][NextVolatility]_vars

VolatilityRatioNames ==
    {"fundamental.calculate_price_stability_ratio",
     "fundamental.calculate_price_to_volatility_cost"}
VolatilityNames ==
    VolatilityRatioNames \cup {"fundamental.calculate_volatility_adjusted_market_cap"}

\* C20 as stated: on a series of at most 2 bars the annualized volatility is
\* 0, so calculate_price_stability_ratio and calculate_price_to_volatility_cost
\* return INF and calculate_volatility_adjusted_market_cap returns the
\* market cap, last close * supply
C20_Original ==
    Len(series.bars) <= 2 =>
        /\ fn \in VolatilityNames => Eq(AnnualizedVolatility(ColClose(series)), Num(0))
        /\ fn \in VolatilityRatioNames => IsInf(out)
        /\ fn = "fundamental.calculate_volatility_adjusted_market_cap" =>
              Eq(out, Num(series.bars[Len(series.bars)].close * fundamental_circulating_supply))

\* what the calls return: on at most 2 bars the standard deviation of fewer
\* than 2 returns is NaN, NaN != 0 holds, and all three return NaN
C20_VolatilityUndefinedOnShortSeries ==
    (fn \in VolatilityNames /\ Len(series.bars) <= 2) =>
        /\ IsNaN(AnnualizedVolatility(ColClose(series)))
        /\ IsNaN(out)



(***************************************************************************)
(* Discounted valuations: one or two bars, every close and volume free.    *)
(***************************************************************************)
DcfLengths == 1..2
DcfCloses == 0..2
DcfVolumes == 0..2
DcfFrames ==
    UNION {{Traded(cs, vs) : cs \in [1..n -> DcfCloses], vs \in [1..n -> DcfVolumes]} :
              n \in DcfLengths}

CallPriceDcf ==
    Called("quantitative.calculate_price_dcf", 0, quantitative_calculate_price_dcf(series))
CallQuantitativeDeuv ==
    Called("quantitative.calculate_deuv", 0, quantitative_calculate_deuv(series))

InitDcf ==
    /\ PageIdle
    /\ series \in DcfFrames
    /\ fn = "none" /\ arg = 0 /\ out = None
NextDcf ==
    \/ CallPriceDcf
    \/ CallQuantitativeDeuv
SpecDcf == InitDcf /\ [][NextDcf]_vars

LastClose(df) == df.bars[Len(df.bars)].close
\* sum of volume * close over the bars lo..hi
RECURSIVE QuoteVolumeSum(_, _, _)
QuoteVolumeSum(df, lo, hi) ==
    IF lo > hi THEN 0
    ELSE df.bars[hi].volume * df.bars[hi].close + QuoteVolumeSum(df, lo, hi - 1)
\* the discounted sum of the projected prices, and of the projected volumes
DiscountedPrices(df) ==
    DiscountedGrowthSum(Num(LastClose(df)), RNorm(110, 100), RNorm(115, 100), 5)
DiscountedVolumes(df) ==
    DiscountedGrowthSum(Q(QuoteVolumeSum(df, 1, Len(df.bars)), Len(df.bars)),
                        RNorm(108, 100), RNorm(112, 100), 5)

\* n^1 * d^(k-1) + n^2 * d^(k-2) + ... + n^k: the sum of (n/d)^t, t = 1..k,
\* counted in units of 1 / d^k
RECURSIVE PowerOf(_, _)
PowerOf(b, k) == IF k = 0 THEN 1 ELSE b * PowerOf(b, k - 1)
RECURSIVE GrowthSumOver(_, _, _, _)
GrowthSumOver(n, d, k, t) ==
    IF t > k THEN 0
    ELSE PowerOf(n, t) * PowerOf(d, k - t) + GrowthSumOver(n, d, k, t + 1)

\* C21 as stated: calculate_price_dcf returns as valuation_ratio the current
\* price divided by the discounted sum of the projected prices, calculate_deuv
\* the market cap divided by the discounted sum of the projected volumes, and
\* each returns INF exactly when its discounted sum is 0
C21_Original ==
    /\ fn = "quantitative.calculate_price_dcf" =>
          IF Eq(DiscountedPrices(series), Num(0)) THEN IsInf(out.valuation_ratio)
          ELSE Eq(out.valuation_ratio, Div(Num(LastClose(series)), DiscountedPrices(series)))
    /\ fn = "quantitative.calculate_deuv" =>
          IF Eq(DiscountedVolumes(series), Num(0)) THEN IsInf(out)
          ELSE Eq(out, Div(Num(LastClose(series) * quantitative_circulating_supply),
                           DiscountedVolumes(series)))

\* what the calls return: calculate_price_dcf divides the discounted sum by
\* the price, which leaves the sum of (1.10 / 1.15)^t over t = 1..5, above 1
\* and the same for every price; calculate_deuv is as stated
C21_PriceDcfRatioInverted ==
    /\ fn = "quantitative.calculate_price_dcf" =>
          IF LastClose(series) = 0 THEN IsInf(out.valuation_ratio)
          ELSE /\ Eq(out.valuation_ratio, Div(DiscountedPrices(series), Num(LastClose(series))))
               /\ out.valuation_ratio =
                     Fin(RZero, ROne, AnnUnit(RNorm(110, 100), RNorm(115, 100), 5))
               /\ GrowthSumOver(22, 23, 5, 1) > PowerOf(23, 5)
    /\ fn = "quantitative.calculate_deuv" =>
          IF Eq(DiscountedVolumes(series), Num(0)) THEN IsInf(out)
          ELSE Eq(out, Div(Num(LastClose(series) * quantitative_circulating_supply),
                           DiscountedVolumes(series)))



(***************************************************************************)
(* Indicators called one after another on the same frame, as the report    *)
(* functions of main.py do.                                                *)
(***************************************************************************)
\* the call has returned; the caller holds the same frame for its next call
CallReturns ==
    /\ fn # "none"
    /\ fn' = "none"
    /\ arg' = 0
    /\ out' = None
    /\ UNCHANGED <<series, appVars>>

InitSequence ==
    /\ PageIdle
    /\ series \in AppFrames
    /\ fn = "none" /\ arg = 0 /\ out = None
NextSequence ==
    \/ CallAtr
    \/ CallVolumeComposition
    \/ CallVwap
    \/ CallObv
    \/ CallSma50
    \/ CallStochasticK
    \/ CallChannelBreakout
    \/ CallPriceDcf
    \/ CallReturns
SpecSequence == InitSequence /\ [][NextSequence]_vars

\* the function of that name applied to the frame df
ResultOf(name, df) ==
    CASE name = "technical.calculate_atr" -> technical_calculate_atr(df, 14)
      [] name = "quantitative.calculate_volume_composition" ->
             quantitative_calculate_volume_composition(df)
      [] name = "technical.calculate_vwap" -> technical_calculate_vwap(df)
      [] name = "technical.calculate_obv" -> technical_calculate_obv(df)
      [] name = "technical.calculate_sma_50" -> technical_calculate_sma_50(df)
      [] name = "technical.calculate_stochastic_k" -> technical_calculate_stochastic_k(df, 14)
      [] name = "technical.calculate_channel_breakout" ->
             technical_calculate_channel_breakout(df)
      [] name = "quantitative.calculate_price_dcf" -> quantitative_calculate_price_dcf(df)

BandLengths == {20, 21}
BandFirstBreaks == {0, 1, 7}
BandSecondBreaks == {12, 19, 20}
BandFrames ==
    {Steps(n, p1, p2, l1, l2, l3, "float") :
        n \in BandLengths, p1 \in BandFirstBreaks, p2 \in BandSecondBreaks,
        l1 \in 0..MaxLevel, l2 \in 0..MaxLevel, l3 \in 0..MaxLevel}

InitBand ==
    /\ PageIdle
    /\ series \in BandFrames
    /\ fn = "none" /\ arg = 0 /\ out = None
NextBand == CallBollingerWidth
SpecBand == InitBand /\ [][NextBand]_vars

\* C23: on a series of at least 20 well-formed bars with non-negative closes
\* calculate_bollinger_width is NaN when the mean of the last 20 closes is 0
\* and otherwise a number that is not negative: 0 when the last 20 closes
\* are all equal, positive when they are not
C23_BollingerWidthNotNegative ==
    (fn = "technical.calculate_bollinger_width"
     /\ Len(series.bars) >= 20 /\ WellFormed(series)) =>
        IF CloseTotal(series, 20) = 0 THEN IsNaN(out)
        ELSE /\ IsNum(out)
             /\ Sign(out) = IF TailFlat(series, 20) THEN 0 ELSE 1

C23_Witness ==
    /\ fn = "technical.calculate_bollinger_width"
    /\ Len(series.bars) = 21
    /\ ~TailFlat(series, 20)
    /\ series.bars[2].close = 0
    /\ Gt(out, Num(0))



(***************************************************************************)
(* Correlation of the returns with themselves: one to four bars with       *)
(* positive closes, flat and geometric series among them.                  *)
(***************************************************************************)
CorrLengths == 1..4
CorrCloses == {1, 2, 4}
CorrFrames ==
    UNION {{Closes(cs) : cs \in [1..n -> CorrCloses]} : n \in CorrLengths}

CallPriceCorrelation ==
    Called("quantitative.calculate_price_correlation", 0,
           quantitative_calculate_price_correlation(series))

InitCorr ==
    /\ PageIdle
    /\ series \in CorrFrames
    /\ fn = "none" /\ arg = 0 /\ out = None
NextCorr == CallPriceCorrelation
SpecCorr == InitCorr /\ [][NextCorr]_vars

\* close[i] / close[i-1] is the same at every bar i > 1 (closes positive)
ReturnsAllEqual(df) ==
    \A i, j \in 2..Len(df.bars) :
        df.bars[i].close * df.bars[j - 1].close = df.bars[j].close * df.bars[i - 1].close

\* C24 as amended: on a series with positive closes calculate_price_correlation
\* returns 1 when the series yields at least 2 returns that are not all
\* equal, and NaN when it yields fewer than 2 returns or returns that are
\* all equal (a flat price for one)
C24_SelfCorrelationOneOrUndefined ==
    (fn = "quantitative.calculate_price_correlation" /\ Len(series.bars) >= 1) =>
        IF Len(series.bars) >= 3 /\ ~ReturnsAllEqual(series)
        THEN Eq(out, Num(1))
        ELSE IsNaN(out)

C24_Witness ==
    /\ fn = "quantitative.calculate_price_correlation"
    /\ Len(series.bars) = 3
    /\ AllFlat(series)
    /\ IsNaN(out)

\* C24 as stated: calculate_price_correlation returns 1 for every series,
\* flat series and series with fewer than 2 returns included
C24_Original ==
    (fn = "quantitative.calculate_price_correlation" /\ Len(series.bars) >= 1) =>
        Eq(out, Num(1))



(***************************************************************************)
(* The date range of the query and the window of the requests.             *)
(***************************************************************************)
\* what main.py computes from the parsed query before it runs the analysis
Configured == configure_dates(parsed.days, parsed.start_date, parsed.end_date)

\* C25 as stated: every request of a run asks for the window computed from
\* the date range of the query
C25_Original ==
    \A w \in window :
        w.startTime = Configured.start_ts /\ w.endTime = Configured.end_ts

\* C25 in the code: every request asks for the days from 2024-04-07 to
\* 2025-04-07, whatever the query says
C25_WindowFixed ==
    \A w \in window : w.startTime = START_DATE /\ w.endTime = END_DATE

\* a query for the last 6 months has been answered from the fixed window
C25_Witness ==
    /\ query.last = <<6, "months">>
    /\ fetched = 1
    /\ window = {[startTime |-> START_DATE, endTime |-> END_DATE]}
    /\ Configured.start_ts = END_DATE - 180



(***************************************************************************)
(* The column types the technical report is computed on.                   *)
(***************************************************************************)
\* the frame a technical run has fetched for its coin
TechnicalFrame == data[COIN_CONFIG[parsed.coin].symbol]
\* a technical run that has fetched 20 bars and is about to compute
TechnicalReady ==
    /\ pc = "fetch" /\ todo = <<>>
    /\ parsed.analysis = "technical"
    /\ Len(TechnicalFrame.bars) = 20

\* C26 as stated: the 20 bars a technical run has fetched have numeric high
\* and low columns, and the run writes a report of 15 rows
C26_Original ==
    [][TechnicalReady =>
           /\ TechnicalFrame.hl = "float"
           /\ csv' # NoCsv /\ Len(csv'.Metric) = 15]_vars

\* C26 in the code: on the columns fetch_binance_data of peer.py delivers,
\* high and low as text, the run ends in the except clause with no report
C26_TextColumnsNoReport ==
    [][(TechnicalReady /\ TechnicalFrame.hl = "str") =>
           /\ csv' = NoCsv /\ errors' = errors + 1 /\ pc' = "done"]_vars



(***************************************************************************)
(* Price channel breakout: bars around the 20-bar window, well formed      *)
(* (low <= close <= high) and not (a close outside its own bar).           *)
(***************************************************************************)
ChannelLengths == {19, 20, 21}
ChannelBreaks == {0, 1, 19, 20}
\* a spread below 0 puts the close outside the bar
ChannelSpreads == {0 - 1, 0, 1}
ChannelFrames ==
    {Candles(n, p, l1, l2, u1, d1, u2, d2) :
        n \in ChannelLengths, p \in ChannelBreaks,
        l1 \in CandleLevels, l2 \in CandleLevels,
        u1 \in {0, 1}, d1 \in {0, 1},
        u2 \in ChannelSpreads, d2 \in ChannelSpreads}

InitChannel ==
    /\ PageIdle
    /\ series \in ChannelFrames
    /\ fn = "none" /\ arg = 0 /\ out = None
NextChannel == CallChannelBreakout
SpecChannel == InitChannel /\ [][NextChannel]_vars

ChannelMalformedBreakout ==
    (/\ fn = "technical.calculate_channel_breakout"
     /\ Len(series.bars) >= 20
     /\ \A i \in 1..Len(series.bars) : series.bars[i].high < Last(series.bars).close)
    => Eq(out, Num(1))



(***************************************************************************)
(* Stochastic %K and Williams %R called with a period of their own, on     *)
(* series shorter than, as long as and longer than the period.             *)
(***************************************************************************)
ScalePeriods == {1, 2, 3, 14}
ScaleLengths == {1, 2, 3, 4, 13, 14, 15}
ScaleBreaks == {0, 1, 2, 3, 13, 14}
ScaleFrames ==
    {Candles(n, p, l1, l2, u1, d1, u2, d2) :
        n \in ScaleLengths, p \in ScaleBreaks,
        l1 \in CandleLevels, l2 \in CandleLevels,
        u1 \in 0..MaxSpread, d1 \in 0..MaxSpread,
        u2 \in 0..MaxSpread, d2 \in 0..MaxSpread}

CallStochasticKWith(period) ==
    Called("technical.calculate_stochastic_k", period,
           technical_calculate_stochastic_k(series, period))
CallWilliamsRWith(period) ==
    Called("technical.calculate_williams_r", period,
           technical_calculate_williams_r(series, period))

InitScale ==
    /\ PageIdle
    /\ series \in ScaleFrames
    /\ fn = "none" /\ arg = 0 /\ out = None
NextScale ==
    \/ \E period \in ScalePeriods : CallStochasticKWith(period)
    \/ \E period \in ScalePeriods : CallWilliamsRWith(period)
SpecScale == InitScale /\ [][NextScale]_vars

\* what the two oscillators return on the same series and period
BothScales(k, r) ==
    /\ out = IF fn = "technical.calculate_stochastic_k" THEN k ELSE r
    /\ IF Len(series.bars) < arg \/ TailHigh(series, arg) = TailLow(series, arg)
       THEN IsNaN(k) /\ IsNaN(r)
       ELSE IsNum(k) /\ IsNum(r) /\ Eq(r, Sub(k, Num(100)))

\* C28: on a series of well-formed bars and a period, calculate_williams_r
\* equals calculate_stochastic_k minus 100 whenever they are numbers, and
\* both are NaN exactly when the series is shorter than the period or the
\* highest high of the last period bars equals their lowest low
C28_WilliamsIsStochasticShifted ==
    (fn \in {"technical.calculate_stochastic_k", "technical.calculate_williams_r"}) =>
        BothScales(technical_calculate_stochastic_k(series, arg),
                   technical_calculate_williams_r(series, arg))

\* a %R strictly between -100 and 0 on a period of 3, 100 below the %K of
\* the same series
C28_Witness ==
    /\ fn = "technical.calculate_williams_r"
    /\ arg = 3 /\ Len(series.bars) = 4
    /\ Lt(Num(-100), out) /\ Lt(out, Num(0))
    /\ Eq(out, Sub(technical_calculate_stochastic_k(series, 3), Num(100)))

\* both undefined on a series shorter than the period
ScaleShortSeries ==
    (fn \in {"technical.calculate_stochastic_k", "technical.calculate_williams_r"}
     /\ Len(series.bars) < arg) => IsNaN(out)



(***************************************************************************)
(* Which queries lead to an analysis, and to which one.                    *)
(***************************************************************************)
\* the keyword of the query that comes first in the order peer,
\* fundamental, quantitative, technical
EarliestKind(kinds) ==
    CHOOSE k \in kinds :
        \A j \in kinds : IndexOf(AnalysisOrder, k) <= IndexOf(AnalysisOrder, j)
\* the file run_<analysis>_analysis writes
ReportFile(analysis) ==
    IF analysis = "peer" THEN "peer_analysis"
    ELSE IF analysis = "fundamental" THEN "fundamental_metrics"
    ELSE IF analysis = "quantitative" THEN "quantitative_metrics"
    ELSE "technical_metrics"
\* the klines requests run_<analysis>_analysis makes
RequestsOf(analysis) == IF analysis = "peer" THEN Len(CoinOrder) ELSE 1

\* C29: a query without a coin or without an analysis keyword ends in one
\* warning with no request, no file and no LLM call; a query with both runs
\* the analysis of its first keyword in the order peer, fundamental,
\* quantitative, technical, and only that one
C29_AnalysisOnlyForResolvedQuery ==
    (pc # "idle") =>
        IF query.coins = {} \/ query.kinds = {}
        THEN /\ pc \in {"parsed", "done"}
             /\ pc = "done" => warnings = 1
             /\ fetched = 0 /\ window = {} /\ todo = <<>>
             /\ csv = NoCsv /\ ~shown /\ llmCalls = 0 /\ errors = 0
        ELSE /\ warnings = 0
             /\ parsed.analysis = EarliestKind(query.kinds)
             /\ fetched + Len(todo) <= RequestsOf(EarliestKind(query.kinds))
             /\ pc = "fetch" =>
                    fetched + Len(todo) = RequestsOf(EarliestKind(query.kinds))
             /\ Written =>
                    /\ csv.path[2] = ReportFile(EarliestKind(query.kinds))
                    /\ csv.Metric = ProfileNames(EarliestKind(query.kinds))
             /\ llmCalls <= 1

\* a query that names an analysis and a date range but no coin has been
\* answered with the warning
C29_Witness ==
    /\ pc = "done"
    /\ query.coins = {} /\ query.kinds = {"technical"}
    /\ query.last = <<6, "months">>
    /\ warnings = 1 /\ fetched = 0 /\ csv = NoCsv /\ llmCalls = 0

\* a query with two analysis keywords has its report written and shown
ResolvedTwoKeywords ==
    /\ query.kinds = {"quantitative", "technical"}
    /\ Written /\ shown

=============================================================================
